---- MODULE Spec2Model ----
(***************************************************************************)
(* Virtual Network Embedding simulator: the discrete-event loop of         *)
(* vne_simulation, the resource bookkeeping of allocate_resources /        *)
(* deallocate_resources and the embedding strategies it drives.            *)
(*                                                                         *)
(* Substrate nodes are numbered 1..n in networkx insertion order, a        *)
(* substrate link is the set {u, v} of its end points (the graph is        *)
(* undirected), a path is the sequence of substrate nodes it visits.       *)
(***************************************************************************)
EXTENDS Integers, Sequences, FiniteSets, TLC

\* ---------------------------------------------------------------- bounds
MaxQueue == 3          \* VNRs in the queue handed to vne_simulation (greedy)
MaxRankedQueue == 2    \* the same for the two ranked strategies
MaxTime == 1           \* arrival_time ranges over 0..MaxTime
MaxLife == 1           \* lifetime ranges over 0..MaxLife
CpuCap == 2            \* base CPU capacity of a substrate node
BwCap == 2             \* base bandwidth capacity of a substrate link
MaxReq == 2            \* largest cpu_req / bandwidth_req of a virtual element
MaxYuQueue == 2        \* VNRs in the queue handed to create_chunks
MaxSlot == 2           \* arrivals fall into the time windows 0..MaxSlot
MaxYuLife == 2         \* yu2008 lifetimes are 0..MaxYuLife time windows

\* ---------------------------------------------------------------- values
NoMapping == [none |-> TRUE, map |-> <<>>]
Some(m) == [none |-> FALSE, map |-> m]

Range(f) == {f[x] : x \in DOMAIN f}

RECURSIVE SumOver(_, _)
SumOver(S, f) ==
    IF S = {} THEN 0
    ELSE LET x == CHOOSE y \in S : TRUE IN f[x] + SumOver(S \ {x}, f)

RECURSIVE SeqSum(_)
SeqSum(s) == IF s = <<>> THEN 0 ELSE Head(s) + SeqSum(Tail(s))

\* ---------------------------------------------------------------- substrate
Link(u, v) == {u, v}

Sub2 ==
    [n |-> 2, cpu |-> <<CpuCap - 1, CpuCap - 1>>,
     links |-> {{1, 2}},
     bandwidth |-> [l \in {{1, 2}} |-> BwCap]]

Line3 ==
    [n |-> 3, cpu |-> <<CpuCap, CpuCap + 1, CpuCap>>,
     links |-> {{1, 2}, {2, 3}},
     bandwidth |-> [l \in {{1, 2}, {2, 3}} |-> IF l = {1, 2} THEN BwCap ELSE BwCap + 1]]

Tri3 ==
    [n |-> 3, cpu |-> <<CpuCap + 1, CpuCap, CpuCap>>,
     links |-> {{1, 2}, {2, 3}, {1, 3}},
     bandwidth |-> [l \in {{1, 2}, {2, 3}, {1, 3}} |-> IF l = {1, 3} THEN BwCap - 1 ELSE BwCap]]

Substrates == {Sub2, Line3, Tri3}

\* a substrate whose nodes all have cpu 0
ZeroCpu2 ==
    [n |-> 2, cpu |-> <<0, 0>>,
     links |-> {{1, 2}},
     bandwidth |-> [l \in {{1, 2}} |-> BwCap]]

AllSubstrates == Substrates \cup {ZeroCpu2}

\* four nodes, every two joined: the links 2-4, 4-1, 1-3 have more bandwidth
\* than the links 1-2, 2-3, 3-4, so that two nodes are joined by five simple
\* paths of which the shortest ones can be short of bandwidth
Quad4 ==
    [n |-> 4, cpu |-> <<CpuCap + 1, CpuCap + 1, CpuCap, CpuCap - 1>>,
     links |-> {{1, 2}, {2, 3}, {3, 4}, {2, 4}, {1, 4}, {1, 3}},
     bandwidth |-> [l \in {{1, 2}, {2, 3}, {3, 4}, {2, 4}, {1, 4}, {1, 3}} |->
                      IF l \in {{1, 2}, {2, 3}, {3, 4}} THEN BwCap - 1 ELSE BwCap]]

\* five nodes in a line: its ends are four hops apart
Line5 ==
    [n |-> 5, cpu |-> <<CpuCap, CpuCap, CpuCap, CpuCap, CpuCap>>,
     links |-> {{1, 2}, {2, 3}, {3, 4}, {4, 5}},
     bandwidth |-> [l \in {{1, 2}, {2, 3}, {3, 4}, {4, 5}} |-> BwCap]]

PathSubstrates == AllSubstrates \cup {Quad4, Line5}

SNodes(sub) == 1..sub.n

\* ---------------------------------------------------------------- VNRs
\* A VNR body: n virtual nodes 1..n (add_node order), the virtual links in
\* add_edge order, each <<u, v>> with u < v, and the demands.
Single ==
    [n |-> 1, cpu_req |-> <<1>>, edge_list |-> <<>>, bandwidth_req |-> <<>>]

PairLow ==
    [n |-> 2, cpu_req |-> <<1, 1>>, edge_list |-> << <<1, 2>> >>, bandwidth_req |-> <<1>>]

Path3 ==
    [n |-> 3, cpu_req |-> <<1, MaxReq, 1>>, edge_list |-> << <<1, 2>>, <<2, 3>> >>,
     bandwidth_req |-> <<1, MaxReq>>]

Triangle ==
    [n |-> 3, cpu_req |-> <<1, 1, 1>>,
     edge_list |-> << <<1, 2>>, <<2, 3>>, <<1, 3>> >>,
     bandwidth_req |-> <<MaxReq, 1, MaxReq>>]

VnrBodies == {Single, PairLow, Path3, Triangle}

VnrInputs ==
    {[body |-> b, arrival_time |-> a, lifetime |-> l] :
        b \in VnrBodies, a \in 0..MaxTime, l \in 0..MaxLife}

VNodes(vnr) == 1..vnr.n

\* vnr.neighbors(x): adjacency in insertion order
RECURSIVE NeighborsFrom(_, _, _)
NeighborsFrom(el, x, i) ==
    IF i > Len(el) THEN <<>>
    ELSE (IF el[i][1] = x THEN <<el[i][2]>>
          ELSE IF el[i][2] = x THEN <<el[i][1]>> ELSE <<>>)
         \o NeighborsFrom(el, x, i + 1)

Neighbors(vnr, x) == NeighborsFrom(vnr.edge_list, x, 1)

\* vnr.edges[u, v]['bandwidth_req'] (either orientation)
BwReq(vnr, u, v) ==
    LET i == CHOOSE j \in 1..Len(vnr.edge_list) :
                 {vnr.edge_list[j][1], vnr.edge_list[j][2]} = {u, v}
    IN vnr.bandwidth_req[i]

\* vnr.edges(): nodes in order, each with its not yet reported neighbours
RECURSIVE VEdgesFrom(_, _)
VEdgesFrom(vnr, u) ==
    IF u > vnr.n THEN <<>>
    ELSE LET nb == Neighbors(vnr, u)
             out == [i \in 1..Len(nb) |-> <<u, nb[i]>>]
         IN SelectSeq(out, LAMBDA e : e[2] > u) \o VEdgesFrom(vnr, u + 1)

VEdges(vnr) == VEdgesFrom(vnr, 1)

\* ---------------------------------------------------------------- paths
\* All simple paths of the substrate from s to t.
SimplePaths(sub, s, t) ==
    {p \in UNION {[1..k -> SNodes(sub)] : k \in 2..sub.n} :
        /\ p[1] = s
        /\ p[Len(p)] = t
        /\ \A i, j \in 1..Len(p) : i /= j => p[i] /= p[j]
        /\ \A i \in 1..(Len(p) - 1) : Link(p[i], p[i + 1]) \in sub.links}

RECURSIVE PathCode(_, _)
PathCode(p, base) ==
    IF p = <<>> THEN 0 ELSE PathCode(SubSeq(p, 1, Len(p) - 1), base) * base + p[Len(p)]

\* Paths are ordered by hop count. Between paths of equal length (Quad4 has
\* them) the order of nx.shortest_simple_paths is fixed by the library; the
\* model orders them by their nodes.
PathBefore(p, q, base) ==
    \/ Len(p) < Len(q)
    \/ Len(p) = Len(q) /\ PathCode(p, base) < PathCode(q, base)

RECURSIVE SortPaths(_, _)
SortPaths(P, base) ==
    IF P = {} THEN <<>>
    ELSE LET p == CHOOSE x \in P : \A y \in P \ {x} : PathBefore(x, y, base)
         IN <<p>> \o SortPaths(P \ {p}, base)

\* The sorted simple paths of every substrate of the model, computed once.
PathTable ==
    [sub \in PathSubstrates |->
        [st \in SNodes(sub) \X SNodes(sub) |->
            SortPaths(SimplePaths(sub, st[1], st[2]), sub.n + 1)]]

\* nx.shortest_simple_paths(substrate, s, t): simple paths by increasing length
ShortestSimplePaths(sub, s, t) == PathTable[sub][<<s, t>>]

\* nx.shortest_path(substrate, s, t); <<>> stands for NetworkXNoPath
ShortestPath(sub, s, t) ==
    IF s = t THEN <<s>>
    ELSE LET ps == ShortestSimplePaths(sub, s, t)
         IN IF ps = <<>> THEN <<>> ELSE ps[1]

\* nx.shortest_path_length(substrate, s, t); -1 stands for NetworkXNoPath
ShortestPathLength(sub, s, t) ==
    IF s = t THEN 0
    ELSE LET p == ShortestPath(sub, s, t) IN IF p = <<>> THEN 0 - 1 ELSE Len(p) - 1

PathLinks(p) == {Link(p[i], p[i + 1]) : i \in 1..(Len(p) - 1)}

\* every edge of the path has bandwidth_available >= bw_req
PathFeasible(bw_av, p, bw_req) ==
    \A i \in 1..(Len(p) - 1) : bw_av[Link(p[i], p[i + 1])] >= bw_req

\* ---------------------------------------------------------------- sorting
\* sorted(xs, key=..., reverse=True): stable, descending by key
RECURSIVE InsertDesc(_, _, _)
InsertDesc(sorted, x, key) ==
    IF sorted = <<>> THEN <<x>>
    ELSE IF key[Head(sorted)] >= key[x]
         THEN <<Head(sorted)>> \o InsertDesc(Tail(sorted), x, key)
         ELSE <<x>> \o sorted

\* a sort that was forgotten: the list stays in node order
KeepOrder(xs, key) == xs

RECURSIVE SortDesc(_, _)
SortDesc(xs, key) ==
    IF xs = <<>> THEN <<>>
    ELSE InsertDesc(SortDesc(SubSeq(xs, 1, Len(xs) - 1), key), xs[Len(xs)], key)

NodeSeq(n) == [i \in 1..n |-> i]

\* ---------------------------------------------------------------- resources
\* allocate_resources, CPU loop: each mapped substrate node is debited cpu_req
RECURSIVE AllocateCpuOver(_, _, _, _)
AllocateCpuOver(cpu_av, nm, vnr, todo) ==
    IF todo = {} THEN cpu_av
    ELSE LET v == CHOOSE x \in todo : TRUE
         IN AllocateCpuOver([cpu_av EXCEPT ![nm[v]] = @ - vnr.cpu_req[v]],
                            nm, vnr, todo \ {v})

AllocateCpu(cpu_av, nm, vnr) == AllocateCpuOver(cpu_av, nm, vnr, DOMAIN nm)

\* a debit that stops one link short of the end of the path
RECURSIVE DebitPathOneShort(_, _, _, _)
DebitPathOneShort(bw_av, p, i, bw_req) ==
    IF i > Len(p) - 2 THEN bw_av
    ELSE DebitPathOneShort([bw_av EXCEPT ![Link(p[i], p[i + 1])] = @ - bw_req],
                           p, i + 1, bw_req)

\* allocate_resources, inner loop: for i in range(len(s_path) - 1)
RECURSIVE DebitPath(_, _, _, _)
DebitPath(bw_av, p, i, bw_req) ==
    IF i > Len(p) - 1 THEN bw_av
    ELSE DebitPath([bw_av EXCEPT ![Link(p[i], p[i + 1])] = @ - bw_req], p, i + 1, bw_req)

RECURSIVE AllocateBwOver(_, _, _, _)
AllocateBwOver(bw_av, lm, vnr, todo) ==
    IF todo = {} THEN bw_av
    ELSE LET e == CHOOSE x \in todo : TRUE
         IN AllocateBwOver(DebitPath(bw_av, lm[e], 1, BwReq(vnr, e[1], e[2])),
                           lm, vnr, todo \ {e})

AllocateBw(bw_av, lm, vnr) == AllocateBwOver(bw_av, lm, vnr, DOMAIN lm)

\* deallocate_resources, CPU loop
RECURSIVE DeallocateCpuOver(_, _, _, _)
DeallocateCpuOver(cpu_av, nm, vnr, todo) ==
    IF todo = {} THEN cpu_av
    ELSE LET v == CHOOSE x \in todo : TRUE
         IN DeallocateCpuOver([cpu_av EXCEPT ![nm[v]] = @ + vnr.cpu_req[v]],
                              nm, vnr, todo \ {v})

DeallocateCpu(cpu_av, nm, vnr) == DeallocateCpuOver(cpu_av, nm, vnr, DOMAIN nm)

\* a credit that gives back to the first link of the path only
CreditFirstLinkOnly(bw_av, p, i, bw_req) ==
    IF Len(p) < 2 THEN bw_av
    ELSE [bw_av EXCEPT ![Link(p[1], p[2])] = @ + bw_req]

\* deallocate_resources, inner loop
RECURSIVE CreditPath(_, _, _, _)
CreditPath(bw_av, p, i, bw_req) ==
    IF i > Len(p) - 1 THEN bw_av
    ELSE CreditPath([bw_av EXCEPT ![Link(p[i], p[i + 1])] = @ + bw_req], p, i + 1, bw_req)

RECURSIVE DeallocateBwOver(_, _, _, _)
DeallocateBwOver(bw_av, lm, vnr, todo) ==
    IF todo = {} THEN bw_av
    ELSE LET e == CHOOSE x \in todo : TRUE
         IN DeallocateBwOver(CreditPath(bw_av, lm[e], 1, BwReq(vnr, e[1], e[2])),
                             lm, vnr, todo \ {e})

DeallocateBw(bw_av, lm, vnr) == DeallocateBwOver(bw_av, lm, vnr, DOMAIN lm)

\* a failure that leaves CPU debited on the first substrate node
FailureKeepsDebit(cpu_av, bw_av) ==
    [node_mapping |-> NoMapping, link_mapping |-> NoMapping, success |-> FALSE,
     cpu_available |-> [cpu_av EXCEPT ![1] = @ - 1], bandwidth_available |-> bw_av]

\* ---------------------------------------------------------------- results of a strategy
\* What a call of a strategy leaves behind: its return value and the
\* availability of the substrate it was handed.
Failure(cpu_av, bw_av) ==
    [node_mapping |-> NoMapping, link_mapping |-> NoMapping, success |-> FALSE,
     cpu_available |-> cpu_av, bandwidth_available |-> bw_av]

Success(nm, lm, cpu_av, bw_av) ==
    [node_mapping |-> Some(nm), link_mapping |-> Some(lm), success |-> TRUE,
     cpu_available |-> cpu_av, bandwidth_available |-> bw_av]

\* ---------------------------------------------------------------- greedy
\* a first fit that does not look at the CPU left on the node
RECURSIVE FirstFitAnyCpu(_, _, _, _, _)
FirstFitAnyCpu(order, i, used, cpu_av, cpu_req) ==
    IF i > Len(order) THEN 0
    ELSE IF order[i] \notin used THEN order[i]
    ELSE FirstFitAnyCpu(order, i + 1, used, cpu_av, cpu_req)

\* a first fit that does not look at the nodes already used by the VNR
RECURSIVE FirstFitReusesNodes(_, _, _, _, _)
FirstFitReusesNodes(order, i, used, cpu_av, cpu_req) ==
    IF i > Len(order) THEN 0
    ELSE IF cpu_av[order[i]] >= cpu_req THEN order[i]
    ELSE FirstFitReusesNodes(order, i + 1, used, cpu_av, cpu_req)

\* first substrate node of the order that is unused and has enough CPU; 0 if none
RECURSIVE FirstFit(_, _, _, _, _)
FirstFit(order, i, used, cpu_av, cpu_req) ==
    IF i > Len(order) THEN 0
    ELSE IF order[i] \notin used /\ cpu_av[order[i]] >= cpu_req THEN order[i]
    ELSE FirstFit(order, i + 1, used, cpu_av, cpu_req)

\* Phase 1 from virtual node v on; NoMapping when a virtual node finds no host
RECURSIVE GreedyNodeMapping(_, _, _, _, _)
GreedyNodeMapping(order, cpu_av, vnr, v, nm) ==
    IF v > vnr.n THEN Some(nm)
    ELSE LET s == FirstFit(order, 1, Range(nm), cpu_av, vnr.cpu_req[v])
         IN IF s = 0 THEN NoMapping
            ELSE GreedyNodeMapping(order, cpu_av, vnr, v + 1, nm @@ (v :> s))

\* a link phase that goes on to longer paths when the shortest one is short
\* of bandwidth
RECURSIVE GreedyLinkAnyLength(_, _, _, _, _, _, _)
GreedyLinkAnyLength(sub, bw_av, vnr, nm, edges, i, lm) ==
    IF i > Len(edges) THEN Some(lm)
    ELSE LET e == edges[i]
             ps == ShortestSimplePaths(sub, nm[e[1]], nm[e[2]])
             ok == {k \in DOMAIN ps : PathFeasible(bw_av, ps[k], BwReq(vnr, e[1], e[2]))}
         IN IF ok = {} THEN NoMapping
            ELSE LET k == CHOOSE x \in ok : \A y \in ok : x <= y
                 IN GreedyLinkAnyLength(sub, bw_av, vnr, nm, edges, i + 1, lm @@ (e :> ps[k]))

\* Phase 2 from the i-th virtual edge on
RECURSIVE GreedyLinkMapping(_, _, _, _, _, _, _)
GreedyLinkMapping(sub, bw_av, vnr, nm, edges, i, lm) ==
    IF i > Len(edges) THEN Some(lm)
    ELSE LET e == edges[i]
             path == ShortestPath(sub, nm[e[1]], nm[e[2]])
         IN IF path = <<>> THEN NoMapping
            ELSE IF PathFeasible(bw_av, path, BwReq(vnr, e[1], e[2]))
                 THEN GreedyLinkMapping(sub, bw_av, vnr, nm, edges, i + 1, lm @@ (e :> path))
                 ELSE NoMapping

simple_greedy_algorithm(sub, cpu_av, bw_av, vnr) ==
    LET substrate_nodes == SortDesc(NodeSeq(sub.n), cpu_av)
        nm == GreedyNodeMapping(substrate_nodes, cpu_av, vnr, 1, <<>>)
    IN IF nm.none THEN Failure(cpu_av, bw_av)
       ELSE LET lm == GreedyLinkMapping(sub, bw_av, vnr, nm.map, VEdges(vnr), 1, <<>>)
            IN IF lm.none THEN Failure(cpu_av, bw_av)
               ELSE Success(nm.map, lm.map, cpu_av, bw_av)

\* ---------------------------------------------------------------- NodeRank
\* "a or b": Python's or on numbers takes b when a is 0
PyOr(a, b) == IF a /= 0 THEN a ELSE b

\* H(u) of a substrate node: the node carries cpu_available and cpu, no cpu_req
SubstrateH(sub, cpu_av, bw_av) ==
    [u \in SNodes(sub) |->
        PyOr(cpu_av[u], PyOr(0, sub.cpu[u]))
        * SumOver({l \in sub.links : u \in l},
                  [l \in sub.links |-> PyOr(bw_av[l], PyOr(0, sub.bandwidth[l]))])]

\* a weight that leaves the bandwidth out: H(u) = cpu_req(u)
VnrHCpuAlone(vnr) == [u \in VNodes(vnr) |-> vnr.cpu_req[u]]

\* H(u) of a virtual node: the node carries cpu_req only
VnrH(vnr) ==
    [u \in VNodes(vnr) |->
        PyOr(0, PyOr(vnr.cpu_req[u], 0))
        * SeqSum([i \in 1..Len(Neighbors(vnr, u)) |->
                     PyOr(0, PyOr(BwReq(vnr, u, Neighbors(vnr, u)[i]), 0))])]

TotalH(H) == SumOver(DOMAIN H, H)

\* The ranks compute_noderank can return for the weights H, as far as the
\* strategies use them: they only compare ranks, so a rank vector is kept
\* as small integers in the order of the ranks.  The fixed point iteration
\* is carried out in floating point and is not reproduced; what it
\* guarantees is kept: a node with H(u) = 0 has rank exactly 0 in every
\* round, and when no weight is negative a node with H(u) > 0 has a rank
\* > 0.  Every strict order of the remaining ranks is admitted.  Two equal
\* non-zero ranks need no vector of their own: every sort is stable, two
\* nodes meet in at most one sorted BFS level, and max() prefers the first
\* node, so the outcome with a tie is the outcome of one of the strict
\* orders.
RankVectors(H) ==
    LET N == DOMAIN H
        k == Cardinality(N)
        nonneg == \A u \in N : H[u] >= 0
        vals == IF nonneg THEN 0..k ELSE (0 - k)..k
    IN {r \in [N -> vals] :
          /\ \A u \in N : (H[u] = 0) <=> (r[u] = 0)
          /\ \A u, w \in N : (u /= w /\ r[u] /= 0) => r[u] /= r[w]
          /\ nonneg => \A x \in 1..k : (\E u \in N : r[u] = x + 1) => (\E u \in N : r[u] = x)}

\* a compute_noderank that never returns the undefined sentinel
NodeRankAlwaysDefined(H) == FALSE

\* compute_noderank: the undefined sentinel, or the admissible rank vectors
NodeRankUndefined(H) == TotalH(H) = 0

\* ---------------------------------------------------------------- rw_maxmatch
DefaultKPaths == 3

\* a node mapping that searches: it finds an assignment whenever there is one
MaxMatchExhaustive(sorted_substrate_nodes, sorted_vnr_nodes, cpu_av, vnr, i, nm) ==
    LET fits(pm) == /\ \A x, y \in DOMAIN pm : x /= y => pm[x] /= pm[y]
                    /\ \A v \in DOMAIN pm : cpu_av[pm[v]] >= vnr.cpu_req[v]
        all == [Range(sorted_vnr_nodes) -> Range(sorted_substrate_nodes)]
    IN IF \E pm \in all : fits(pm)
       THEN Some(CHOOSE pm \in all : fits(pm))
       ELSE NoMapping

RECURSIVE MaxMatchNodeMapping(_, _, _, _, _, _)
MaxMatchNodeMapping(sorted_substrate_nodes, sorted_vnr_nodes, cpu_av, vnr, i, nm) ==
    IF i > Len(sorted_vnr_nodes) THEN Some(nm)
    ELSE LET v == sorted_vnr_nodes[i]
             s == FirstFit(sorted_substrate_nodes, 1, Range(nm), cpu_av, vnr.cpu_req[v])
         IN IF s = 0 THEN NoMapping
            ELSE MaxMatchNodeMapping(sorted_substrate_nodes, sorted_vnr_nodes, cpu_av,
                                     vnr, i + 1, nm @@ (v :> s))

rw_maxmatch_node_mapping(sub, cpu_av, vnr, substrate_noderank, vnr_noderank) ==
    MaxMatchNodeMapping(SortDesc(NodeSeq(sub.n), substrate_noderank),
                        SortDesc(NodeSeq(vnr.n), vnr_noderank), cpu_av, vnr, 1, <<>>)

\* a search that goes on through every simple path
RECURSIVE AnyFeasiblePath(_, _, _, _)
AnyFeasiblePath(paths, bw_av, bw_req, k) ==
    IF Len(paths) < k THEN <<>>
    ELSE IF PathFeasible(bw_av, paths[k], bw_req) THEN paths[k]
    ELSE AnyFeasiblePath(paths, bw_av, bw_req, k + 1)

\* for k in range(1, 4): the k-th shortest simple path, if there are k; <<>> if
\* none of them is feasible
RECURSIVE KthFeasiblePath(_, _, _, _)
KthFeasiblePath(paths, bw_av, bw_req, k) ==
    IF k > DefaultKPaths \/ Len(paths) < k THEN <<>>
    ELSE IF PathFeasible(bw_av, paths[k], bw_req) THEN paths[k]
    ELSE KthFeasiblePath(paths, bw_av, bw_req, k + 1)

RECURSIVE MaxMatchLinkMapping(_, _, _, _, _, _, _)
MaxMatchLinkMapping(sub, bw_av, vnr, nm, edges, i, lm) ==
    IF i > Len(edges) THEN Some(lm)
    ELSE LET e == edges[i]
             path == KthFeasiblePath(ShortestSimplePaths(sub, nm[e[1]], nm[e[2]]),
                                     bw_av, BwReq(vnr, e[1], e[2]), 1)
         IN IF path = <<>> THEN NoMapping
            ELSE MaxMatchLinkMapping(sub, bw_av, vnr, nm, edges, i + 1, lm @@ (e :> path))

rw_maxmatch_link_mapping(sub, bw_av, vnr, nm) ==
    MaxMatchLinkMapping(sub, bw_av, vnr, nm, VEdges(vnr), 1, <<>>)

\* rw_maxmatch_algorithm once both ranks are defined
RwMaxMatchRanked(sub, cpu_av, bw_av, vnr, substrate_noderank, vnr_noderank) ==
    LET nm == rw_maxmatch_node_mapping(sub, cpu_av, vnr, substrate_noderank, vnr_noderank)
    IN IF nm.none THEN Failure(cpu_av, bw_av)
       ELSE LET lm == rw_maxmatch_link_mapping(sub, bw_av, vnr, nm.map)
            IN [node_mapping |-> nm, link_mapping |-> lm, success |-> ~lm.none,
                cpu_available |-> cpu_av, bandwidth_available |-> bw_av]

rw_maxmatch_algorithm(sub, cpu_av, bw_av, vnr) ==
    LET HS == SubstrateH(sub, cpu_av, bw_av)
        HV == VnrH(vnr)
    IN IF NodeRankUndefined(HS) \/ NodeRankUndefined(HV)
       THEN {Failure(cpu_av, bw_av)}
       ELSE {RwMaxMatchRanked(sub, cpu_av, bw_av, vnr, rs, rv) :
                rs \in RankVectors(HS), rv \in RankVectors(HV)}

\* ---------------------------------------------------------------- rw_bfs
DefaultMaxHop == 3
DefaultMaxBacktrack == 3

\* max(vnr.nodes(), key=rank): the first node, in node order, of largest rank
MaxRankNode(n, rank) ==
    CHOOSE u \in 1..n :
        /\ \A w \in 1..n : rank[w] <= rank[u]
        /\ \A w \in 1..(u - 1) : rank[w] < rank[u]

\* next_level of one BFS round: st = [visited, next_level, bfs_parents]
RECURSIVE ScanNeighbors(_, _, _, _)
ScanNeighbors(nb, i, node, st) ==
    IF i > Len(nb) THEN st
    ELSE IF nb[i] \in st.visited THEN ScanNeighbors(nb, i + 1, node, st)
    ELSE ScanNeighbors(nb, i + 1, node,
             [visited |-> st.visited \cup {nb[i]},
              next_level |-> Append(st.next_level, nb[i]),
              bfs_parents |-> st.bfs_parents @@ (nb[i] :> node)])

RECURSIVE ScanLevel(_, _, _, _)
ScanLevel(vnr, level, i, st) ==
    IF i > Len(level) THEN st
    ELSE ScanLevel(vnr, level, i + 1,
                   ScanNeighbors(Neighbors(vnr, level[i]), 1, level[i], st))

RECURSIVE BfsLevels(_, _, _, _, _, _)
BfsLevels(vnr, rank, current_level, visited, bfs_order, bfs_parents) ==
    IF current_level = <<>>
    THEN [bfs_order |-> bfs_order, bfs_parents |-> bfs_parents]
    ELSE LET level == SortDesc(current_level, rank)
             st == ScanLevel(vnr, level, 1,
                       [visited |-> visited, next_level |-> <<>>,
                        bfs_parents |-> bfs_parents])
         IN BfsLevels(vnr, rank, st.next_level, st.visited,
                      bfs_order \o level, st.bfs_parents)

\* bfs_parents maps the root to 0 (None)
construct_bfs_tree_order(vnr, vnr_noderank) ==
    LET root_node == MaxRankNode(vnr.n, vnr_noderank)
    IN BfsLevels(vnr, vnr_noderank, <<root_node>>, {root_node}, <<>>, (root_node :> 0))

build_candidate_lists(sub, cpu_av, bw_av, vnr, substrate_noderank) ==
    [vnr_node \in VNodes(vnr) |->
        LET cpu_req == vnr.cpu_req[vnr_node]
            nb == Neighbors(vnr, vnr_node)
            total_bw_req == SeqSum([i \in 1..Len(nb) |-> BwReq(vnr, vnr_node, nb[i])])
            fits(sub_node) ==
                /\ cpu_av[sub_node] >= cpu_req
                /\ SumOver({l \in sub.links : sub_node \in l}, bw_av) >= total_bw_req
        IN SortDesc(SelectSeq(NodeSeq(sub.n), fits), substrate_noderank)]

\* a hop constraint that lets every substrate node through
AnyHopCount(sub, vnr_node, sub_node, nm, bfs_parents, max_k) == TRUE

check_hop_constraint(sub, vnr_node, sub_node, nm, bfs_parents, max_k) ==
    LET parent_node == bfs_parents[vnr_node]
    IN IF parent_node = 0 THEN TRUE
       ELSE LET distance == ShortestPathLength(sub, sub_node, nm[parent_node])
            IN distance >= 0 /\ distance <= max_k

\* the paths from sub_node to the hosts of the already mapped neighbours;
\* NoMapping as soon as one of them is missing or not feasible
\* a link loop that stops at the first link it has routed
RECURSIVE FirstNeighborLinkMapping(_, _, _, _, _, _, _, _)
FirstNeighborLinkMapping(sub, bw_av, vnr, vnr_node, sub_node, nm, i, lms) ==
    LET nb == Neighbors(vnr, vnr_node)
    IN IF i > Len(nb) THEN Some(lms)
       ELSE IF nb[i] \notin DOMAIN nm
            THEN FirstNeighborLinkMapping(sub, bw_av, vnr, vnr_node, sub_node, nm, i + 1, lms)
       ELSE LET path == IF sub_node = nm[nb[i]] THEN <<sub_node>>
                        ELSE ShortestPath(sub, sub_node, nm[nb[i]])
            IN IF path = <<>> THEN NoMapping
               ELSE IF PathFeasible(bw_av, path, BwReq(vnr, vnr_node, nb[i]))
                    THEN Some(lms @@ (<<vnr_node, nb[i]>> :> path))
                    ELSE NoMapping

RECURSIVE NeighborLinkMappings(_, _, _, _, _, _, _, _)
NeighborLinkMappings(sub, bw_av, vnr, vnr_node, sub_node, nm, i, lms) ==
    LET nb == Neighbors(vnr, vnr_node)
    IN IF i > Len(nb) THEN Some(lms)
       ELSE IF nb[i] \notin DOMAIN nm
            THEN NeighborLinkMappings(sub, bw_av, vnr, vnr_node, sub_node, nm, i + 1, lms)
       ELSE LET path == IF sub_node = nm[nb[i]] THEN <<sub_node>>
                        ELSE ShortestPath(sub, sub_node, nm[nb[i]])
            IN IF path = <<>> THEN NoMapping
               ELSE IF PathFeasible(bw_av, path, BwReq(vnr, vnr_node, nb[i]))
                    THEN NeighborLinkMappings(sub, bw_av, vnr, vnr_node, sub_node, nm,
                             i + 1, lms @@ (<<vnr_node, nb[i]>> :> path))
                    ELSE NoMapping

NoMatch == [success |-> FALSE, substrate_node |-> 0, link_mappings |-> <<>>]

\* the root: the first candidate with enough CPU
RECURSIVE MatchRoot(_, _, _, _)
MatchRoot(candidates, i, cpu_av, cpu_req) ==
    IF i > Len(candidates) THEN NoMatch
    ELSE IF cpu_av[candidates[i]] >= cpu_req
         THEN [success |-> TRUE, substrate_node |-> candidates[i], link_mappings |-> <<>>]
         ELSE MatchRoot(candidates, i + 1, cpu_av, cpu_req)

\* a search that takes the candidates in rank order whatever their distance,
\* up to max_hop, from the parent's host
RECURSIVE MatchAnyRadius(_, _, _, _, _, _, _, _, _, _, _)
MatchAnyRadius(sub, cpu_av, bw_av, vnr, vnr_node, candidates, nm, bfs_parents, max_hop, k, i) ==
    IF i > Len(candidates) THEN NoMatch
    ELSE LET sub_node == candidates[i]
             skip == \/ sub_node \in Range(nm)
                     \/ cpu_av[sub_node] < vnr.cpu_req[vnr_node]
                     \/ ~check_hop_constraint(sub, vnr_node, sub_node, nm, bfs_parents, max_hop)
             lms == NeighborLinkMappings(sub, bw_av, vnr, vnr_node, sub_node, nm, 1, <<>>)
         IN IF ~skip /\ ~lms.none
            THEN [success |-> TRUE, substrate_node |-> sub_node, link_mappings |-> lms.map]
            ELSE MatchAnyRadius(sub, cpu_av, bw_av, vnr, vnr_node, candidates, nm,
                                bfs_parents, max_hop, k, i + 1)

\* a non-root node: for k in range(1, max_hop + 1): for sub_node in candidates
RECURSIVE MatchWithin(_, _, _, _, _, _, _, _, _, _, _)
MatchWithin(sub, cpu_av, bw_av, vnr, vnr_node, candidates, nm, bfs_parents, max_hop, k, i) ==
    IF k > max_hop THEN NoMatch
    ELSE IF i > Len(candidates)
         THEN MatchWithin(sub, cpu_av, bw_av, vnr, vnr_node, candidates, nm,
                          bfs_parents, max_hop, k + 1, 1)
    ELSE LET sub_node == candidates[i]
             skip == \/ sub_node \in Range(nm)
                     \/ cpu_av[sub_node] < vnr.cpu_req[vnr_node]
                     \/ ~check_hop_constraint(sub, vnr_node, sub_node, nm, bfs_parents, k)
             lms == NeighborLinkMappings(sub, bw_av, vnr, vnr_node, sub_node, nm, 1, <<>>)
         IN IF ~skip /\ ~lms.none
            THEN [success |-> TRUE, substrate_node |-> sub_node, link_mappings |-> lms.map]
            ELSE MatchWithin(sub, cpu_av, bw_av, vnr, vnr_node, candidates, nm,
                             bfs_parents, max_hop, k, i + 1)

match_vnr_node(sub, cpu_av, bw_av, vnr, vnr_node, candidates, nm, bfs_parents, max_hop) ==
    IF DOMAIN nm = {}
    THEN MatchRoot(candidates, 1, cpu_av, vnr.cpu_req[vnr_node])
    ELSE MatchWithin(sub, cpu_av, bw_av, vnr, vnr_node, candidates, nm, bfs_parents,
                     max_hop, 1, 1)

Restrict(f, D) == [x \in D |-> f[x]]

\* a backtrack that leaves backtrack_count as it is
BacktrackUncounted(bfs_order, st) ==
    [st EXCEPT !.current_index = @ - 1,
               !.node_mapping = [x \in DOMAIN @ \ {bfs_order[st.current_index]} |-> @[x]]]

\* a backtrack that does not mark the host it removes as tried
BacktrackUntried(bfs_order, st) ==
    LET prev_vnr_node == bfs_order[st.current_index]
    IN [node_mapping |->
            [x \in DOMAIN st.node_mapping \ {prev_vnr_node} |-> st.node_mapping[x]],
        link_mapping |->
            [e \in {e \in DOMAIN st.link_mapping :
                        e[1] /= prev_vnr_node /\ e[2] /= prev_vnr_node} |-> st.link_mapping[e]],
        backtrack_count |-> st.backtrack_count + 1,
        current_index |-> st.current_index - 1,
        tried_candidates |->
            [v \in DOMAIN st.tried_candidates |->
                IF \E i \in (st.current_index + 1)..Len(bfs_order) : bfs_order[i] = v
                THEN {} ELSE st.tried_candidates[v]]]

\* one backtrack: st = [node_mapping, link_mapping, backtrack_count,
\* current_index, tried_candidates], current_index counted from 0
Backtrack(bfs_order, st) ==
    LET prev_vnr_node == bfs_order[st.current_index]
        cleared == [v \in DOMAIN st.tried_candidates |->
                       IF \E i \in (st.current_index + 1)..Len(bfs_order) : bfs_order[i] = v
                       THEN {} ELSE st.tried_candidates[v]]
        mapped == prev_vnr_node \in DOMAIN st.node_mapping
    IN [node_mapping |->
            Restrict(st.node_mapping, DOMAIN st.node_mapping \ {prev_vnr_node}),
        link_mapping |->
            Restrict(st.link_mapping,
                     {e \in DOMAIN st.link_mapping :
                         e[1] /= prev_vnr_node /\ e[2] /= prev_vnr_node}),
        backtrack_count |-> st.backtrack_count + 1,
        current_index |-> st.current_index - 1,
        tried_candidates |->
            IF mapped
            THEN [cleared EXCEPT ![prev_vnr_node] = @ \cup {st.node_mapping[prev_vnr_node]}]
            ELSE cleared]

\* a limit that lets one backtrack more through
MayBacktrackOnceMore(st, max_backtrack) ==
    st.backtrack_count <= max_backtrack /\ st.current_index > 0

\* if backtrack_count < max_backtrack and current_index > 0
MayBacktrack(st, max_backtrack) ==
    st.backtrack_count < max_backtrack /\ st.current_index > 0

\* the while loop of bfs_embedding_with_backtracking, to its return
RECURSIVE BfsLoop(_, _, _, _, _, _, _, _, _, _)
BfsLoop(sub, cpu_av, bw_av, vnr, bfs_order, bfs_parents, candidate_lists, max_hop, max_backtrack, st) ==
    IF st.current_index >= Len(bfs_order)
    THEN [success |-> TRUE, node_mapping |-> st.node_mapping,
          link_mapping |-> st.link_mapping, backtrack_count |-> st.backtrack_count]
    ELSE LET vnr_node == bfs_order[st.current_index + 1]
             available_candidates ==
                 SelectSeq(candidate_lists[vnr_node],
                           LAMBDA c : c \notin st.tried_candidates[vnr_node])
             match_result ==
                 match_vnr_node(sub, cpu_av, bw_av, vnr, vnr_node, available_candidates,
                                st.node_mapping, bfs_parents, max_hop)
         IN IF match_result.success
            THEN BfsLoop(sub, cpu_av, bw_av, vnr, bfs_order, bfs_parents, candidate_lists,
                    max_hop, max_backtrack,
                    [st EXCEPT
                        !.node_mapping = (vnr_node :> match_result.substrate_node) @@ @,
                        !.link_mapping = match_result.link_mappings @@ @,
                        !.current_index = @ + 1])
            ELSE IF MayBacktrack(st, max_backtrack)
                 THEN BfsLoop(sub, cpu_av, bw_av, vnr, bfs_order, bfs_parents,
                         candidate_lists, max_hop, max_backtrack, Backtrack(bfs_order, st))
                 ELSE [success |-> FALSE, node_mapping |-> <<>>, link_mapping |-> <<>>,
                       backtrack_count |-> st.backtrack_count]

bfs_embedding_with_backtracking(sub, cpu_av, bw_av, vnr, bfs_order, bfs_parents, candidate_lists, max_hop, max_backtrack) ==
    BfsLoop(sub, cpu_av, bw_av, vnr, bfs_order, bfs_parents, candidate_lists,
            max_hop, max_backtrack,
            [node_mapping |-> <<>>, link_mapping |-> <<>>, backtrack_count |-> 0,
             current_index |-> 0,
             tried_candidates |-> [v \in Range(bfs_order) |-> {}]])

\* rw_bfs_algorithm once both ranks are defined
RwBfsRanked(sub, cpu_av, bw_av, vnr, substrate_noderank, vnr_noderank, max_hop, max_backtrack) ==
    LET tree == construct_bfs_tree_order(vnr, vnr_noderank)
        candidate_lists == build_candidate_lists(sub, cpu_av, bw_av, vnr, substrate_noderank)
        out == bfs_embedding_with_backtracking(sub, cpu_av, bw_av, vnr, tree.bfs_order,
                   tree.bfs_parents, candidate_lists, max_hop, max_backtrack)
    IN IF out.success
       THEN Success(out.node_mapping, out.link_mapping, cpu_av, bw_av)
       ELSE Failure(cpu_av, bw_av)

rw_bfs_algorithm(sub, cpu_av, bw_av, vnr) ==
    LET HS == SubstrateH(sub, cpu_av, bw_av)
        HV == VnrH(vnr)
    IN IF NodeRankUndefined(HS) \/ NodeRankUndefined(HV)
       THEN {Failure(cpu_av, bw_av)}
       ELSE {RwBfsRanked(sub, cpu_av, bw_av, vnr, rs, rv, DefaultMaxHop,
                         DefaultMaxBacktrack) :
                rs \in RankVectors(HS), rv \in RankVectors(HV)}

\* ---------------------------------------------------------------- strategies
Algorithms == {"simple_greedy_algorithm", "rw_bfs_algorithm", "rw_maxmatch_algorithm"}

\* a greedy strategy whose sort puts substrate nodes of equal cpu_available
\* in any order
EmbedOutcomesUnstableSort(alg, sub, cpu_av, bw_av, vnr) ==
    CASE alg = "simple_greedy_algorithm" ->
           {LET nm == GreedyNodeMapping(order, cpu_av, vnr, 1, <<>>)
            IN IF nm.none THEN Failure(cpu_av, bw_av)
               ELSE LET lm == GreedyLinkMapping(sub, bw_av, vnr, nm.map, VEdges(vnr), 1, <<>>)
                    IN IF lm.none THEN Failure(cpu_av, bw_av)
                       ELSE Success(nm.map, lm.map, cpu_av, bw_av) :
               order \in {o \in [1..sub.n -> SNodes(sub)] :
                             /\ \A i, j \in 1..sub.n : i /= j => o[i] /= o[j]
                             /\ \A i, j \in 1..sub.n :
                                   i < j => cpu_av[o[i]] >= cpu_av[o[j]]}}
      [] alg = "rw_bfs_algorithm" -> rw_bfs_algorithm(sub, cpu_av, bw_av, vnr)
      [] alg = "rw_maxmatch_algorithm" -> rw_maxmatch_algorithm(sub, cpu_av, bw_av, vnr)

\* The results a call of algorithm_func(substrate_working, vnr) can have.
EmbedOutcomes(alg, sub, cpu_av, bw_av, vnr) ==
    CASE alg = "simple_greedy_algorithm" -> {simple_greedy_algorithm(sub, cpu_av, bw_av, vnr)}
      [] alg = "rw_bfs_algorithm" -> rw_bfs_algorithm(sub, cpu_av, bw_av, vnr)
      [] alg = "rw_maxmatch_algorithm" -> rw_maxmatch_algorithm(sub, cpu_av, bw_av, vnr)

\* ---------------------------------------------------------------- simulation
VARIABLES
    algorithm,            \* algorithm_func
    substrate,            \* the substrate graph: topology and total capacities
    vnr_queue,            \* the VNRs handed to vne_simulation
    cpu_available,        \* substrate_working.nodes[s]['cpu_available']
    bandwidth_available,  \* substrate_working.edges[l]['bandwidth_available']
    events,               \* the event list
    pos,                  \* events consumed so far by "for event in events"
    active_embeddings,    \* vnr_id -> (node_mapping, link_mapping)
    results,              \* the result list
    processed,            \* history: the events handled, in the order handled (in a
                          \* rw_bfs run: the placements made, in the order made)
    before,               \* history: the availability when the last event was taken up
    after_call,           \* history: the availability as the last strategy call left it
    removed,              \* second run: the vnr_id left out of its queue (0: no second run)
    shadow,               \* second run: its state, the same fields as the first run's
    yu,                   \* yu2008_algorithm: its chunk list and its locals
    nr,                   \* compute_noderank: the graph it is called on and its locals
    bfs                   \* bfs_embedding_with_backtracking: its arguments and its locals

vars == <<algorithm, substrate, vnr_queue, cpu_available, bandwidth_available,
          events, pos, active_embeddings, results, processed, before, after_call,
          removed, shadow, yu, nr, bfs>>

MakeVnr(id, in) ==
    [vnr_id |-> id, arrival_time |-> in.arrival_time, lifetime |-> in.lifetime,
     n |-> in.body.n, cpu_req |-> in.body.cpu_req,
     edge_list |-> in.body.edge_list, bandwidth_req |-> in.body.bandwidth_req]

Queues(max) ==
    UNION {{[i \in 1..k |-> MakeVnr(i, q[i])] : q \in [1..k -> VnrInputs]} : k \in 1..max}

QueueBound(alg) == IF alg = "simple_greedy_algorithm" THEN MaxQueue ELSE MaxRankedQueue

\* events.sort(key=lambda x: x['time']): stable, ascending
RECURSIVE InsertByTime(_, _)
InsertByTime(sorted, ev) ==
    IF sorted = <<>> THEN <<ev>>
    ELSE IF Head(sorted).time <= ev.time
         THEN <<Head(sorted)>> \o InsertByTime(Tail(sorted), ev)
         ELSE <<ev>> \o sorted

\* a sort that leaves the list as it is
UnsortedEvents(evs) == evs

RECURSIVE SortEvents(_)
SortEvents(evs) ==
    IF evs = <<>> THEN <<>>
    ELSE InsertByTime(SortEvents(SubSeq(evs, 1, Len(evs) - 1)), evs[Len(evs)])

\* one ARRIVAL event per VNR of the queue, in queue order
ArrivalEvents(queue) ==
    [i \in 1..Len(queue) |->
        [time |-> queue[i].arrival_time, type |-> "ARRIVAL", vnr_id |-> queue[i].vnr_id]]

\* the state of a run once the event list is built: st.queue is the list of
\* VNRs the run was given
StartOfRun(sub, queue) ==
    [cpu_available |-> sub.cpu,
     bandwidth_available |-> sub.bandwidth,
     events |-> SortEvents(ArrivalEvents(queue)),
     pos |-> 0,
     active_embeddings |-> <<>>,
     results |-> <<>>]

\* active_embeddings[vnr_id] = (node_mapping, link_mapping, vnr)
Register(active, vnr_id, nm, lm) ==
    [id \in DOMAIN active \cup {vnr_id} |->
        IF id = vnr_id THEN [node_mapping |-> nm, link_mapping |-> lm] ELSE active[id]]

\* del active_embeddings[vnr_id]
Unregister(active, vnr_id) == [id \in DOMAIN active \ {vnr_id} |-> active[id]]

\* an acceptance that appends no departure event
ForgetDeparture(evs, current_time, vnr) == evs

\* events.append(departure); events.sort(...)
ScheduleDeparture(evs, current_time, vnr) ==
    SortEvents(Append(evs, [time |-> current_time + vnr.lifetime,
                            type |-> "DEPARTURE", vnr_id |-> vnr.vnr_id]))

\* results that keep the accepted VNRs only
RecordAcceptedOnly(res, vnr, current_time, r, active) ==
    IF r.success
    THEN Append(res, [vnr_id |-> vnr.vnr_id, arrival_time |-> current_time,
                      success |-> r.success, node_mapping |-> r.node_mapping,
                      link_mapping |-> r.link_mapping,
                      currently_active |-> Cardinality(DOMAIN active)])
    ELSE res

\* results.append({...})
RecordResult(res, vnr, current_time, r, active) ==
    Append(res, [vnr_id |-> vnr.vnr_id, arrival_time |-> current_time,
                 success |-> r.success, node_mapping |-> r.node_mapping,
                 link_mapping |-> r.link_mapping,
                 currently_active |-> Cardinality(DOMAIN active)])

\* The loop body for an ARRIVAL event whose strategy call came out as r.
ArrivalStep(st, event, vnr, r) ==
    LET current_time == event.time
        active == IF r.success
                  THEN Register(st.active_embeddings, vnr.vnr_id,
                                r.node_mapping.map, r.link_mapping.map)
                  ELSE st.active_embeddings
    IN [cpu_available |->
            IF r.success THEN AllocateCpu(r.cpu_available, r.node_mapping.map, vnr)
            ELSE r.cpu_available,
        bandwidth_available |->
            IF r.success THEN AllocateBw(r.bandwidth_available, r.link_mapping.map, vnr)
            ELSE r.bandwidth_available,
        events |->
            IF r.success THEN ScheduleDeparture(st.events, current_time, vnr)
            ELSE st.events,
        pos |-> st.pos + 1,
        active_embeddings |-> active,
        results |-> RecordResult(st.results, vnr, current_time, r, active)]

\* The loop body for a DEPARTURE event.
DepartureStep(st, event, queue) ==
    LET vnr_id == event.vnr_id
    IN IF vnr_id \in DOMAIN st.active_embeddings
       THEN LET emb == st.active_embeddings[vnr_id]
                vnr == queue[vnr_id]
            IN [st EXCEPT
                   !.cpu_available = DeallocateCpu(@, emb.node_mapping, vnr),
                   !.bandwidth_available = DeallocateBw(@, emb.link_mapping, vnr),
                   !.active_embeddings = Unregister(@, vnr_id),
                   !.pos = @ + 1]
       ELSE [st EXCEPT !.pos = @ + 1]

Current ==
    [cpu_available |-> cpu_available, bandwidth_available |-> bandwidth_available,
     events |-> events, pos |-> pos, active_embeddings |-> active_embeddings,
     results |-> results]

Becomes(st) ==
    /\ cpu_available' = st.cpu_available
    /\ bandwidth_available' = st.bandwidth_available
    /\ events' = st.events
    /\ pos' = st.pos
    /\ active_embeddings' = st.active_embeddings
    /\ results' = st.results

NoSecondRun == <<>>

\* the locals of yu2008_algorithm when it is not the strategy of the run
NoYuRun ==
    [stage |-> "idle", i |-> 0, chunks |-> <<>>, retried |-> {},
     node_mapping |-> <<>>, link_mapping |-> <<>>, active_embeddings |-> <<>>,
     failed_vnrs |-> <<>>, successfully_mapped_vnrs |-> <<>>,
     node_pos |-> 0, link_pos |-> 0,
     successfully_embedded_vnrs |-> {}, embedding_time |-> <<>>,
     historical_node_mapping |-> <<>>, historical_link_mapping |-> <<>>,
     results |-> <<>>]

\* the locals of bfs_embedding_with_backtracking when no call of it is followed
NoBfsRun ==
    [stage |-> "idle", bfs_order |-> <<>>, bfs_parents |-> <<>>, candidate_lists |-> <<>>,
     node_mapping |-> <<>>, link_mapping |-> <<>>, backtrack_count |-> 0,
     current_index |-> 0, tried_candidates |-> <<>>, success |-> FALSE]

\* the locals of compute_noderank when no call of it is followed
NoRankRun ==
    [stage |-> "idle", graph |-> "none", H |-> <<>>, total_H |-> 0, rank0 |-> <<>>,
     node_rank |-> <<>>, iteration |-> 0, undefined |-> FALSE]

InitRunOn(algs, subs) ==
    /\ algorithm \in algs
    /\ substrate \in subs
    /\ vnr_queue \in Queues(QueueBound(algorithm))
    /\ cpu_available = substrate.cpu
    /\ bandwidth_available = substrate.bandwidth
    /\ events = SortEvents(ArrivalEvents(vnr_queue))
    /\ pos = 0
    /\ active_embeddings = <<>>
    /\ results = <<>>
    /\ processed = <<>>
    /\ before = [cpu_available |-> substrate.cpu, bandwidth_available |-> substrate.bandwidth]
    /\ after_call = before
    /\ yu = NoYuRun
    /\ nr = NoRankRun
    /\ bfs = NoBfsRun

InitRun == InitRunOn(Algorithms, Substrates)

Init ==
    /\ InitRun
    /\ removed = 0
    /\ shadow = NoSecondRun

NextEvent == events[pos + 1]

\* the first run takes up an ARRIVAL event; the strategy call comes out as r
ArrivalOf(r) ==
    LET st == ArrivalStep(Current, NextEvent, vnr_queue[NextEvent.vnr_id], r)
    IN /\ Becomes(st)
       /\ processed' = Append(processed, NextEvent)
       /\ before' = [cpu_available |-> cpu_available,
                     bandwidth_available |-> bandwidth_available]
       /\ after_call' = [cpu_available |-> r.cpu_available,
                         bandwidth_available |-> r.bandwidth_available]
       /\ UNCHANGED <<algorithm, substrate, vnr_queue>>

\* the first run takes up a DEPARTURE event
DepartureOf ==
    LET st == DepartureStep(Current, NextEvent, vnr_queue)
    IN /\ Becomes(st)
       /\ processed' = Append(processed, NextEvent)
       /\ before' = [cpu_available |-> cpu_available,
                     bandwidth_available |-> bandwidth_available]
       /\ after_call' = before'
       /\ UNCHANGED <<algorithm, substrate, vnr_queue>>

Arrival ==
    /\ pos < Len(events)
    /\ NextEvent.type = "ARRIVAL"
    /\ \E r \in EmbedOutcomes(algorithm, substrate, cpu_available, bandwidth_available,
                              vnr_queue[NextEvent.vnr_id]) : ArrivalOf(r)
    /\ UNCHANGED <<removed, shadow, yu, nr, bfs>>

Departure ==
    /\ pos < Len(events)
    /\ NextEvent.type = "DEPARTURE"
    /\ DepartureOf
    /\ UNCHANGED <<removed, shadow, yu, nr, bfs>>

Done == pos = Len(events)

Next == Arrival \/ Departure

\* the runs of the two NodeRank strategies, the substrate without CPU among
\* the substrates
RankedAlgorithms == {"rw_bfs_algorithm", "rw_maxmatch_algorithm"}

InitRanked ==
    /\ InitRunOn(RankedAlgorithms, AllSubstrates)
    /\ removed = 0
    /\ shadow = NoSecondRun

SpecRanked == InitRanked /\ [][Next]_vars

Spec == Init /\ [][Next]_vars

\* an event is left in the list: ENABLED <<Next>>_vars, read off the guards
\* of Arrival and Departure
NextEnabled == pos < Len(events)

\* for event in events: while an event is left, the loop takes it up. This
\* is WF_vars(Next), with its ENABLED written as NextEnabled.
Fairness == []<>(~NextEnabled) \/ []<><<Next>>_vars

\* the runs of every strategy, those of the two NodeRank strategies on the
\* substrates without a cycle
InitFair ==
    /\ \/ InitRunOn({"simple_greedy_algorithm"}, Substrates)
       \/ InitRunOn(RankedAlgorithms, {Sub2, Line3})
    /\ removed = 0
    /\ shadow = NoSecondRun

SpecFair == InitFair /\ [][Next]_vars /\ Fairness

\* ---------------------------------------------------------------- yu2008
\* calculate_revenue
alpha == 2

\* a revenue that weighs CPU and bandwidth alike
RevenueUnweighted(vnr) == SeqSum(vnr.cpu_req) + SeqSum(vnr.bandwidth_req)

calculate_revenue(vnr) == SeqSum(vnr.cpu_req) * alpha + SeqSum(vnr.bandwidth_req)

\* sorted(vnr_queue, key=arrival_time): stable, ascending
RECURSIVE InsertByArrival(_, _)
InsertByArrival(sorted, vnr) ==
    IF sorted = <<>> THEN <<vnr>>
    ELSE IF Head(sorted).arrival_time <= vnr.arrival_time
         THEN <<Head(sorted)>> \o InsertByArrival(Tail(sorted), vnr)
         ELSE <<vnr>> \o sorted

RECURSIVE SortByArrival(_)
SortByArrival(queue) ==
    IF queue = <<>> THEN <<>>
    ELSE InsertByArrival(SortByArrival(SubSeq(queue, 1, Len(queue) - 1)), queue[Len(queue)])

\* create_chunks, the loop over sorted_vnrs; a chunk is a list of vnr_ids
RECURSIVE ChunkLoop(_, _, _, _, _, _)
ChunkLoop(sorted_vnrs, k, chunks, chunk, start_time, tw) ==
    IF k > Len(sorted_vnrs)
    THEN IF chunk /= <<>> THEN Append(chunks, chunk) ELSE chunks
    ELSE LET vnr == sorted_vnrs[k]
         IN IF vnr.arrival_time <= start_time + tw
            THEN ChunkLoop(sorted_vnrs, k + 1, chunks, Append(chunk, vnr.vnr_id),
                           start_time, tw)
            ELSE ChunkLoop(sorted_vnrs, k + 1, Append(chunks, chunk), <<vnr.vnr_id>>,
                           start_time + tw, tw)

create_chunks(queue, tw) == ChunkLoop(SortByArrival(queue), 1, <<>>, <<>>, 0, tw)

\* yu2008_algorithm(substrate, vnr_chunks, time_window=25)
time_window == 25

\* for k in range(1, 4)
YuKPaths == 3

\* get_node_rank(node): the bandwidth available around the node times its CPU
get_node_rank(sub, cpu_av, bw_av, node) ==
    SumOver({l \in sub.links : node \in l}, bw_av) * cpu_av[node]

\* chunk.sort(key=calculate_revenue, reverse=True)
SortByRevenue(ids, queue) ==
    SortDesc(ids, [id \in DOMAIN queue |-> calculate_revenue(queue[id])])

\* a deallocation that leaves the CPU debited
YuCreditNoCpu(cpu_av, nm, vnr, todo) == cpu_av

\* credit the CPU of the virtual nodes in nm back to their hosts
RECURSIVE YuCreditCpu(_, _, _, _)
YuCreditCpu(cpu_av, nm, vnr, todo) ==
    IF todo = {} THEN cpu_av
    ELSE LET v == CHOOSE x \in todo : TRUE
         IN YuCreditCpu([cpu_av EXCEPT ![nm[v]] = @ + vnr.cpu_req[v]], nm, vnr, todo \ {v})

\* for j in range(len(path) - 1): bandwidth_available -= / += amount
RECURSIVE YuAdjustPath(_, _, _, _)
YuAdjustPath(bw_av, path, j, amount) ==
    IF j > Len(path) - 1 THEN bw_av
    ELSE YuAdjustPath([bw_av EXCEPT ![Link(path[j], path[j + 1])] = @ + amount],
                      path, j + 1, amount)

\* a roll back that leaves the bandwidth debited
YuCreditNoBw(bw_av, lm, vnr, todo) == bw_av

\* credit the bandwidth of the virtual links in lm back to their paths
RECURSIVE YuCreditBw(_, _, _, _)
YuCreditBw(bw_av, lm, vnr, todo) ==
    IF todo = {} THEN bw_av
    ELSE LET e == CHOOSE x \in todo : TRUE
         IN YuCreditBw(YuAdjustPath(bw_av, lm[e], 1, BwReq(vnr, e[1], e[2])),
                       lm, vnr, todo \ {e})

\* del d[key]
Without(f, key) == [x \in DOMAIN f \ {key} |-> f[x]]

\* d[key] = value
With(f, key, value) == [x \in DOMAIN f \cup {key} |-> IF x = key THEN value ELSE f[x]]

\* departures that keep an embedding whose departure_time is the boundary time
RECURSIVE YuDeparturesLate(_, _, _, _)
YuDeparturesLate(st, queue, current_time, todo) ==
    IF todo = {} THEN st
    ELSE LET vnr_id == CHOOSE x \in todo : TRUE
             vnr == queue[vnr_id]
             nm == st.node_mapping[vnr_id]
             lm == st.link_mapping[vnr_id]
         IN IF st.active_embeddings[vnr_id] < current_time
            THEN YuDeparturesLate(
                     [cpu_available |-> YuCreditCpu(st.cpu_available, nm, vnr, DOMAIN nm),
                      bandwidth_available |->
                          YuCreditBw(st.bandwidth_available, lm, vnr, DOMAIN lm),
                      node_mapping |-> Without(st.node_mapping, vnr_id),
                      link_mapping |-> Without(st.link_mapping, vnr_id),
                      active_embeddings |-> Without(st.active_embeddings, vnr_id)],
                     queue, current_time, todo \ {vnr_id})
            ELSE YuDeparturesLate(st, queue, current_time, todo \ {vnr_id})

\* Process departures: every active embedding with departure_time <= current_time
RECURSIVE YuDepartures(_, _, _, _)
YuDepartures(st, queue, current_time, todo) ==
    IF todo = {} THEN st
    ELSE LET vnr_id == CHOOSE x \in todo : TRUE
             vnr == queue[vnr_id]
             nm == st.node_mapping[vnr_id]
             lm == st.link_mapping[vnr_id]
         IN IF st.active_embeddings[vnr_id] <= current_time
            THEN YuDepartures(
                     [cpu_available |-> YuCreditCpu(st.cpu_available, nm, vnr, DOMAIN nm),
                      bandwidth_available |->
                          YuCreditBw(st.bandwidth_available, lm, vnr, DOMAIN lm),
                      node_mapping |-> Without(st.node_mapping, vnr_id),
                      link_mapping |-> Without(st.link_mapping, vnr_id),
                      active_embeddings |-> Without(st.active_embeddings, vnr_id)],
                     queue, current_time, todo \ {vnr_id})
            ELSE YuDepartures(st, queue, current_time, todo \ {vnr_id})

\* a choice of host that does not look at cpu_available
RECURSIVE YuFirstFreeHost(_, _, _, _, _)
YuFirstFreeHost(substrate_nodes, i, used, cpu_av, cpu_req) ==
    IF i > Len(substrate_nodes) THEN 0
    ELSE IF substrate_nodes[i] \in used THEN
             YuFirstFreeHost(substrate_nodes, i + 1, used, cpu_av, cpu_req)
    ELSE substrate_nodes[i]

\* for s_node in substrate_nodes: the first one not used by this VNR with
\* enough CPU; 0 if none
RECURSIVE YuFirstHost(_, _, _, _, _)
YuFirstHost(substrate_nodes, i, used, cpu_av, cpu_req) ==
    IF i > Len(substrate_nodes) THEN 0
    ELSE IF substrate_nodes[i] \in used THEN
             YuFirstHost(substrate_nodes, i + 1, used, cpu_av, cpu_req)
    ELSE IF cpu_av[substrate_nodes[i]] >= cpu_req THEN substrate_nodes[i]
    ELSE YuFirstHost(substrate_nodes, i + 1, used, cpu_av, cpu_req)

\* for v_node in vnr.nodes(): map and debit in place; roll back on the first
\* virtual node that finds no host
RECURSIVE YuNodeLoop(_, _, _, _, _)
YuNodeLoop(substrate_nodes, cpu_av, vnr, v, vnr_node_mapping) ==
    IF v > vnr.n
    THEN [mapped |-> TRUE, vnr_node_mapping |-> vnr_node_mapping, cpu_available |-> cpu_av,
          cpu_debited |-> cpu_av]
    ELSE LET s == YuFirstHost(substrate_nodes, 1, Range(vnr_node_mapping), cpu_av,
                              vnr.cpu_req[v])
         IN IF s = 0
            THEN [mapped |-> FALSE, vnr_node_mapping |-> <<>>,
                  cpu_available |-> YuCreditCpu(cpu_av, vnr_node_mapping, vnr,
                                                DOMAIN vnr_node_mapping),
                  cpu_debited |-> cpu_av]
            ELSE YuNodeLoop(substrate_nodes, [cpu_av EXCEPT ![s] = @ - vnr.cpu_req[v]],
                            vnr, v + 1, vnr_node_mapping @@ (v :> s))

Min(S) == CHOOSE x \in S : \A y \in S : x <= y

\* Phase 1 for one VNR of the chunk
YuNodeMapping(sub, cpu_av, bw_av, vnr) ==
    LET min_cpu_req == Min(Range(vnr.cpu_req))
        S == SelectSeq(NodeSeq(sub.n), LAMBDA node : cpu_av[node] >= min_cpu_req)
        substrate_nodes ==
            SortDesc(S, [node \in SNodes(sub) |-> get_node_rank(sub, cpu_av, bw_av, node)])
    IN IF S = <<>>
       THEN [mapped |-> FALSE, vnr_node_mapping |-> <<>>, cpu_available |-> cpu_av,
             cpu_debited |-> cpu_av]
       ELSE YuNodeLoop(substrate_nodes, cpu_av, vnr, 1, <<>>)

\* a choice of path that checks the first edge of the path only
RECURSIVE YuFirstEdgeFeasible(_, _, _, _)
YuFirstEdgeFeasible(paths, j, bw_av, bandwidth_req) ==
    IF j > Len(paths) THEN <<>>
    ELSE IF bw_av[Link(paths[j][1], paths[j][2])] >= bandwidth_req THEN paths[j]
    ELSE YuFirstEdgeFeasible(paths, j + 1, bw_av, bandwidth_req)

\* for path in paths: the first path with enough bandwidth on every edge
RECURSIVE YuFirstFeasible(_, _, _, _)
YuFirstFeasible(paths, j, bw_av, bandwidth_req) ==
    IF j > Len(paths) THEN <<>>
    ELSE IF PathFeasible(bw_av, paths[j], bandwidth_req) THEN paths[j]
    ELSE YuFirstFeasible(paths, j + 1, bw_av, bandwidth_req)

\* a search that goes on through every simple path
YuFindAnyPath(all_paths, k, bw_av, bandwidth_req) ==
    YuFirstFeasible(all_paths, 1, bw_av, bandwidth_req)

\* for k in range(1, 4): the first k shortest simple paths are tried
RECURSIVE YuFindPath(_, _, _, _)
YuFindPath(all_paths, k, bw_av, bandwidth_req) ==
    IF k > YuKPaths \/ all_paths = <<>> THEN <<>>
    ELSE LET paths == SubSeq(all_paths, 1, IF k < Len(all_paths) THEN k ELSE Len(all_paths))
             path == YuFirstFeasible(paths, 1, bw_av, bandwidth_req)
         IN IF path /= <<>> THEN path
            ELSE YuFindPath(all_paths, k + 1, bw_av, bandwidth_req)

\* for v_edge in vnr.edges(): route and debit in place; roll back the links
\* routed so far on the first virtual link that finds no path
RECURSIVE YuLinkLoop(_, _, _, _, _, _, _)
YuLinkLoop(sub, bw_av, vnr, nm, edges, i, lm) ==
    IF i > Len(edges)
    THEN [path_found |-> TRUE, link_mapping |-> lm, bandwidth_available |-> bw_av,
          bandwidth_debited |-> bw_av, routed |-> lm]
    ELSE LET v_edge == edges[i]
             bandwidth_req == BwReq(vnr, v_edge[1], v_edge[2])
             path == YuFindPath(ShortestSimplePaths(sub, nm[v_edge[1]], nm[v_edge[2]]),
                                1, bw_av, bandwidth_req)
         IN IF path = <<>>
            THEN [path_found |-> FALSE, link_mapping |-> <<>>,
                  bandwidth_available |-> YuCreditBw(bw_av, lm, vnr, DOMAIN lm),
                  bandwidth_debited |-> bw_av, routed |-> lm]
            ELSE YuLinkLoop(sub, YuAdjustPath(bw_av, path, 1, 0 - bandwidth_req), vnr, nm,
                            edges, i + 1, lm @@ (v_edge :> path))

\* a result list whose mappings are read from the working tables
YuResultsFromTables(y, queue) ==
    [vnr_id \in 1..Len(queue) |->
        IF vnr_id \in y.successfully_embedded_vnrs
        THEN [vnr_id |-> vnr_id, arrival_time |-> queue[vnr_id].arrival_time,
              embedding_time |-> Some(y.embedding_time[vnr_id]), success |-> TRUE,
              node_mapping |-> IF vnr_id \in DOMAIN y.node_mapping
                               THEN Some(y.node_mapping[vnr_id]) ELSE Some(<<>>),
              link_mapping |-> IF vnr_id \in DOMAIN y.link_mapping
                               THEN Some(y.link_mapping[vnr_id]) ELSE Some(<<>>)]
        ELSE [vnr_id |-> vnr_id, arrival_time |-> queue[vnr_id].arrival_time,
              embedding_time |-> NoMapping, success |-> FALSE,
              node_mapping |-> NoMapping, link_mapping |-> NoMapping]]

\* the result list, one entry per vnr_id of all_processed_vnrs (ascending ids)
YuResults(y, queue) ==
    [vnr_id \in 1..Len(queue) |->
        IF vnr_id \in y.successfully_embedded_vnrs
        THEN [vnr_id |-> vnr_id, arrival_time |-> queue[vnr_id].arrival_time,
              embedding_time |-> Some(y.embedding_time[vnr_id]), success |-> TRUE,
              node_mapping |-> Some(y.historical_node_mapping[vnr_id]),
              link_mapping |-> Some(y.historical_link_mapping[vnr_id])]
        ELSE [vnr_id |-> vnr_id, arrival_time |-> queue[vnr_id].arrival_time,
              embedding_time |-> NoMapping, success |-> FALSE,
              node_mapping |-> NoMapping, link_mapping |-> NoMapping]]

YuCurrentTime == yu.i * time_window

YuChunk == yu.chunks[yu.i]

YuSimIdle ==
    UNCHANGED <<algorithm, substrate, vnr_queue, events, pos, active_embeddings, results,
                processed, removed, shadow, nr, bfs>>

\* history: the availability when the step began, where its debits had
\* taken it before any roll back, the hosts it routed between and the paths
\* it had routed by then; a step only debits and then only credits
YuStepFrom(cpu_debited, bandwidth_debited, hosts, routed) ==
    /\ before' = [cpu_available |-> cpu_available,
                  bandwidth_available |-> bandwidth_available]
    /\ after_call' = [cpu_available |-> cpu_debited,
                      bandwidth_available |-> bandwidth_debited,
                      node_mapping |-> hosts,
                      link_mapping |-> routed]

\* the head of the loop body for chunk i: departures, then the revenue sort
YuStartChunk ==
    /\ yu.stage = "departures"
    /\ LET st == YuDepartures([cpu_available |-> cpu_available,
                               bandwidth_available |-> bandwidth_available,
                               node_mapping |-> yu.node_mapping,
                               link_mapping |-> yu.link_mapping,
                               active_embeddings |-> yu.active_embeddings],
                              vnr_queue, YuCurrentTime, DOMAIN yu.active_embeddings)
       IN /\ cpu_available' = st.cpu_available
          /\ bandwidth_available' = st.bandwidth_available
          /\ yu' = [yu EXCEPT !.stage = "mapping",
                              !.node_mapping = st.node_mapping,
                              !.link_mapping = st.link_mapping,
                              !.active_embeddings = st.active_embeddings,
                              !.chunks[yu.i] = SortByRevenue(YuChunk, vnr_queue),
                              !.failed_vnrs = <<>>,
                              !.successfully_mapped_vnrs = <<>>,
                              !.node_pos = 0,
                              !.link_pos = 0]
    /\ YuStepFrom(cpu_available, bandwidth_available, <<>>, <<>>)
    /\ YuSimIdle

\* a requeue that does not look at vnr.graph['retried']
YuMarkFailedAgain(y, vnr_id) ==
    [y EXCEPT !.failed_vnrs = Append(@, vnr_id), !.retried = @ \cup {vnr_id}]

\* if not vnr.graph['retried']: failed_vnrs.append(vnr); retried = True
YuMarkFailed(y, vnr_id) ==
    IF vnr_id \in y.retried THEN y
    ELSE [y EXCEPT !.failed_vnrs = Append(@, vnr_id), !.retried = @ \cup {vnr_id}]

\* Phase 1, one VNR of the chunk
YuMapNodes ==
    /\ yu.stage = "mapping"
    /\ yu.node_pos < Len(YuChunk)
    /\ LET vnr_id == YuChunk[yu.node_pos + 1]
           out == YuNodeMapping(substrate, cpu_available, bandwidth_available,
                                vnr_queue[vnr_id])
           y == [yu EXCEPT !.node_pos = @ + 1]
       IN /\ cpu_available' = out.cpu_available
          /\ yu' = IF out.mapped
                   THEN [y EXCEPT !.node_mapping = With(@, vnr_id, out.vnr_node_mapping),
                                  !.successfully_mapped_vnrs = Append(@, vnr_id)]
                   ELSE YuMarkFailed(y, vnr_id)
          /\ YuStepFrom(out.cpu_debited, bandwidth_available, <<>>, <<>>)
    /\ UNCHANGED bandwidth_available
    /\ YuSimIdle

\* Phase 2, one VNR of successfully_mapped_vnrs (sorted by revenue)
YuMapLinks ==
    /\ yu.stage = "mapping"
    /\ yu.node_pos = Len(YuChunk)
    /\ yu.link_pos < Len(yu.successfully_mapped_vnrs)
    /\ LET vnr_id == SortByRevenue(yu.successfully_mapped_vnrs, vnr_queue)[yu.link_pos + 1]
           vnr == vnr_queue[vnr_id]
           nm == yu.node_mapping[vnr_id]
           out == YuLinkLoop(substrate, bandwidth_available, vnr, nm, VEdges(vnr), 1, <<>>)
           y == [yu EXCEPT !.link_pos = @ + 1]
       IN /\ YuStepFrom(cpu_available, out.bandwidth_debited, nm, out.routed)
          /\ IF out.path_found
             THEN /\ UNCHANGED cpu_available
                  /\ bandwidth_available' = out.bandwidth_available
                  /\ yu' = [y EXCEPT
                               !.link_mapping = With(@, vnr_id, out.link_mapping),
                               !.active_embeddings =
                                   With(@, vnr_id, YuCurrentTime + vnr.lifetime),
                               !.successfully_embedded_vnrs = @ \cup {vnr_id},
                               !.embedding_time = With(@, vnr_id, YuCurrentTime),
                               !.historical_node_mapping = With(@, vnr_id, nm),
                               !.historical_link_mapping = With(@, vnr_id, out.link_mapping)]
             ELSE /\ cpu_available' = YuCreditCpu(cpu_available, nm, vnr, DOMAIN nm)
                  /\ bandwidth_available' = out.bandwidth_available
                  /\ yu' = YuMarkFailed([y EXCEPT !.node_mapping = Without(@, vnr_id)], vnr_id)
    /\ YuSimIdle

\* the foot of the loop body: failed VNRs go to the next chunk, or to a new one
YuEndChunk ==
    /\ yu.stage = "mapping"
    /\ yu.node_pos = Len(YuChunk)
    /\ yu.link_pos = Len(yu.successfully_mapped_vnrs)
    /\ LET chunks == IF yu.failed_vnrs = <<>> THEN yu.chunks
                     ELSE IF yu.i < Len(yu.chunks)
                          THEN [yu.chunks EXCEPT ![yu.i + 1] = @ \o yu.failed_vnrs]
                          ELSE Append(yu.chunks, yu.failed_vnrs)
       IN yu' = [yu EXCEPT !.chunks = chunks,
                           !.i = @ + 1,
                           !.stage = IF yu.i < Len(chunks) THEN "departures" ELSE "results"]
    /\ UNCHANGED <<cpu_available, bandwidth_available, before, after_call>>
    /\ YuSimIdle

\* after the loop: the result list is built and returned
YuReturn ==
    /\ yu.stage = "results"
    /\ yu' = [yu EXCEPT !.stage = "returned", !.results = YuResults(yu, vnr_queue)]
    /\ UNCHANGED <<cpu_available, bandwidth_available, before, after_call>>
    /\ YuSimIdle

\* the queues yu2008_algorithm is run on: arrivals spread over the time windows
YuTimes == {s * time_window + d : s \in 0..MaxSlot, d \in 0..MaxTime}

YuLifetimes == {l * time_window : l \in 0..MaxYuLife}

YuQueues ==
    UNION {{[i \in 1..k |-> MakeVnr(i, q[i])] :
               q \in [1..k -> {[body |-> b, arrival_time |-> a, lifetime |-> l] :
                                  b \in VnrBodies, a \in YuTimes, l \in YuLifetimes}]} :
           k \in 1..MaxYuQueue}

\* _run_yu2008: chunks from create_chunks, availability reset to the capacities
InitYuOn(subs) ==
    /\ algorithm = "yu2008_algorithm"
    /\ substrate \in subs
    /\ vnr_queue \in YuQueues
    /\ cpu_available = substrate.cpu
    /\ bandwidth_available = substrate.bandwidth
    /\ events = <<>>
    /\ pos = 0
    /\ active_embeddings = <<>>
    /\ results = <<>>
    /\ processed = <<>>
    /\ before = [cpu_available |-> substrate.cpu, bandwidth_available |-> substrate.bandwidth]
    /\ after_call = before
    /\ removed = 0
    /\ shadow = NoSecondRun
    /\ yu = [NoYuRun EXCEPT !.stage = "departures", !.i = 1,
                            !.chunks = create_chunks(vnr_queue, time_window)]
    /\ nr = NoRankRun
    /\ bfs = NoBfsRun

InitYu == InitYuOn(Substrates)

NextYu == YuStartChunk \/ YuMapNodes \/ YuMapLinks \/ YuEndChunk \/ YuReturn

SpecYu == InitYu /\ [][NextYu]_vars

\* a step of yu2008_algorithm is left to take: ENABLED <<NextYu>>_vars, read
\* off the guards of its actions
YuNextEnabled == yu.stage \in {"departures", "mapping", "results"}

\* yu2008_algorithm is one sequential loop: while a step of it is left to
\* take, the interpreter takes it. This is WF_vars(NextYu), with its ENABLED
\* written as YuNextEnabled.
YuFairness == []<>(~YuNextEnabled) \/ []<><<NextYu>>_vars

SpecYuFair == InitYu /\ [][NextYu]_vars /\ YuFairness

\* the runs of the two strategies that route over k shortest paths, on the
\* substrate with five simple paths between two nodes
InitPaths ==
    \/ /\ InitRunOn({"rw_maxmatch_algorithm"}, {Quad4})
       /\ Len(vnr_queue) = 1
       /\ removed = 0
       /\ shadow = NoSecondRun
    \/ InitYuOn({Quad4})

SpecPaths == InitPaths /\ [][Next \/ NextYu]_vars

\* every strategy: a run of vne_simulation or a run of yu2008_algorithm
SpecAll == (Init \/ InitYu) /\ [][Next \/ NextYu]_vars

\* ---------------------------------------------------------------- a second run
\* The same simulation on the queue without the VNR `removed`, advanced
\* event by event next to the first run: whenever the first run takes up an
\* event other than the arrival of `removed`, the second run takes up its own
\* next event.  The ranks compute_noderank returns are a function of the graph
\* it is handed, so where both runs make the same call of a ranked strategy the
\* second run gets the first run's answer; a call of simple_greedy_algorithm is
\* evaluated by the second run on its own.
WithoutRemoved(queue, id) == SelectSeq(queue, LAMBDA v : v.vnr_id /= id)

ShadowEvent == shadow.events[shadow.pos + 1]

ShadowOutcomes(sameCall, r) ==
    IF /\ sameCall
       /\ algorithm /= "simple_greedy_algorithm"
       /\ ShadowEvent.vnr_id = NextEvent.vnr_id
       /\ shadow.cpu_available = cpu_available
       /\ shadow.bandwidth_available = bandwidth_available
    THEN {r}
    ELSE EmbedOutcomes(algorithm, substrate, shadow.cpu_available,
                       shadow.bandwidth_available, vnr_queue[ShadowEvent.vnr_id])

ShadowStep(sameCall, r) ==
    IF ShadowEvent.type = "DEPARTURE"
    THEN shadow' = DepartureStep(shadow, ShadowEvent, vnr_queue)
    ELSE \E r2 \in ShadowOutcomes(sameCall, r) :
            shadow' = ArrivalStep(shadow, ShadowEvent, vnr_queue[ShadowEvent.vnr_id], r2)

ShadowDone == shadow.pos = Len(shadow.events)

RemovedAccepted ==
    \E i \in DOMAIN results : results[i].vnr_id = removed /\ results[i].success

RemovedFailed ==
    \E i \in DOMAIN results : results[i].vnr_id = removed /\ ~results[i].success

\* the second run is followed for as long as `removed` has not been accepted:
\* the comparison is about a VNR that failed
ShadowFollows(isArrival, r) ==
    IF (isArrival /\ NextEvent.vnr_id = removed) \/ ShadowDone \/ RemovedAccepted
    THEN shadow' = shadow
    ELSE ShadowStep(isArrival, r)

InitRemoval ==
    /\ InitRun
    /\ removed \in 1..Len(vnr_queue)
    /\ shadow = StartOfRun(substrate, WithoutRemoved(vnr_queue, removed))

PairArrival ==
    /\ pos < Len(events)
    /\ NextEvent.type = "ARRIVAL"
    /\ \E r \in EmbedOutcomes(algorithm, substrate, cpu_available, bandwidth_available,
                              vnr_queue[NextEvent.vnr_id]) :
          ArrivalOf(r) /\ ShadowFollows(TRUE, r)
    /\ UNCHANGED <<removed, yu, nr, bfs>>

PairDeparture ==
    /\ pos < Len(events)
    /\ NextEvent.type = "DEPARTURE"
    /\ DepartureOf
    /\ ShadowFollows(FALSE, Failure(cpu_available, bandwidth_available))
    /\ UNCHANGED <<removed, yu, nr, bfs>>

NextRemoval == PairArrival \/ PairDeparture

SpecRemoval == InitRemoval /\ [][NextRemoval]_vars

\* the same simulation run twice on the same substrate and the same queue
InitTwice ==
    /\ InitRun
    /\ removed = 0
    /\ shadow = StartOfRun(substrate, vnr_queue)

SpecTwice == InitTwice /\ [][NextRemoval]_vars

\* ---------------------------------------------------------------- a call of compute_noderank
\* compute_noderank(substrate) and compute_noderank(vnr) as the strategies
\* call it.  H and the initial ranks are exact: the initial rank of u is the
\* fraction H(u) / total_H.  The refinement runs in floating point; of a
\* rank it keeps the sign, -1, 0 or 1, which rounding does not change.
max_iterations == 100

Sgn(x) == IF x > 0 THEN 1 ELSE IF x < 0 THEN 0 - 1 ELSE 0

\* the signs a sum can have whose terms have the signs in S
SumSigns(S) ==
    IF S \subseteq {0} THEN {0}
    ELSE IF S \subseteq {0, 1} THEN {1}
    ELSE IF S \subseteq {0, 0 - 1} THEN {0 - 1}
    ELSE {0 - 1, 0, 1}

\* graph.nodes(), graph.neighbors(u) and H of the graph the call is given
RankNodes == IF nr.graph = "substrate" THEN SNodes(substrate) ELSE VNodes(vnr_queue[1])

RankNeighbors(u) ==
    IF nr.graph = "substrate"
    THEN {w \in SNodes(substrate) : w /= u /\ Link(u, w) \in substrate.links}
    ELSE Range(Neighbors(vnr_queue[1], u))

RankH ==
    IF nr.graph = "substrate"
    THEN SubstrateH(substrate, cpu_available, bandwidth_available)
    ELSE VnrH(vnr_queue[1])

\* a refinement that takes the local influence off the global one
NewRankSignsDamped(H, total_H, node_rank) ==
    {new \in [RankNodes -> {0 - 1, 0, 1}] :
        \E sum_sign \in SumSigns(Range(node_rank)) :
            \A v \in RankNodes :
                new[v] \in SumSigns(
                    {Sgn(H[v]) * Sgn(total_H) * sum_sign}
                    \cup {0 - Sgn(H[v]) * node_rank[u] :
                             u \in {w \in RankNeighbors(v) :
                                       SumOver(RankNeighbors(w), H) > 0}})}

\* lines 27-49: the signs new_rank can have after one round.
\* global_influence = H[v] / total_H * p_jump * sum(node_rank.values());
\* local_influence adds H[v] / total_neighbor_H * p_forward * node_rank[u]
\* for the neighbours u of v with total_neighbor_H > 0
NewRankSigns(H, total_H, node_rank) ==
    {new \in [RankNodes -> {0 - 1, 0, 1}] :
        \E sum_sign \in SumSigns(Range(node_rank)) :
            \A v \in RankNodes :
                new[v] \in SumSigns(
                    {Sgn(H[v]) * Sgn(total_H) * sum_sign}
                    \cup {Sgn(H[v]) * node_rank[u] :
                             u \in {w \in RankNeighbors(v) :
                                       SumOver(RankNeighbors(w), H) > 0}})}

RankSimIdle ==
    UNCHANGED <<algorithm, substrate, vnr_queue, cpu_available, bandwidth_available,
                events, pos, active_embeddings, results, processed, before, after_call,
                removed, shadow, yu, bfs>>

\* lines 3-20: H, total_H, and None or the initial ranks
RankStart ==
    /\ nr.stage = "called"
    /\ LET H == RankH
           total_H == TotalH(H)
       IN nr' = IF total_H = 0
                THEN [nr EXCEPT !.stage = "returned", !.H = H, !.undefined = TRUE]
                ELSE [nr EXCEPT !.stage = "refining", !.H = H, !.total_H = total_H,
                                !.rank0 = [u \in RankNodes |-> [num |-> H[u], den |-> total_H]],
                                !.node_rank = [u \in RankNodes |-> Sgn(H[u]) * Sgn(total_H)]]
    /\ RankSimIdle

\* lines 23-56: one round of the loop; it ends the loop when total_diff is
\* below epsilon, which the signs do not tell
RankRound ==
    /\ nr.stage = "refining"
    /\ nr.iteration < max_iterations
    /\ \E new_rank \in NewRankSigns(nr.H, nr.total_H, nr.node_rank) :
          \/ nr' = [nr EXCEPT !.stage = "returned"]
          \/ nr' = [nr EXCEPT !.node_rank = new_rank, !.iteration = @ + 1]
    /\ RankSimIdle

\* line 58 after max_iterations rounds
RankReturn ==
    /\ nr.stage = "refining"
    /\ nr.iteration = max_iterations
    /\ nr' = [nr EXCEPT !.stage = "returned"]
    /\ RankSimIdle

\* the graphs compute_noderank is called on: a substrate at any availability
\* from 0 to the capacity, or a VNR
InitNodeRank ==
    /\ algorithm = "rw_bfs_algorithm"
    /\ \/ /\ nr = [NoRankRun EXCEPT !.stage = "called", !.graph = "substrate"]
          /\ substrate \in AllSubstrates
          /\ vnr_queue = <<>>
          /\ cpu_available \in [SNodes(substrate) -> 0..(CpuCap + 1)]
          /\ \A u \in SNodes(substrate) : cpu_available[u] <= substrate.cpu[u]
          /\ bandwidth_available \in [substrate.links -> 0..(BwCap + 1)]
          /\ \A l \in substrate.links : bandwidth_available[l] <= substrate.bandwidth[l]
       \/ /\ nr = [NoRankRun EXCEPT !.stage = "called", !.graph = "vnr"]
          /\ substrate = Sub2
          /\ \E b \in VnrBodies :
                vnr_queue = <<MakeVnr(1, [body |-> b, arrival_time |-> 0, lifetime |-> 0])>>
          /\ cpu_available = substrate.cpu
          /\ bandwidth_available = substrate.bandwidth
    /\ events = <<>>
    /\ pos = 0
    /\ active_embeddings = <<>>
    /\ results = <<>>
    /\ processed = <<>>
    /\ before = [cpu_available |-> cpu_available, bandwidth_available |-> bandwidth_available]
    /\ after_call = before
    /\ removed = 0
    /\ shadow = NoSecondRun
    /\ yu = NoYuRun
    /\ bfs = NoBfsRun

NextNodeRank == RankStart \/ RankRound \/ RankReturn

SpecNodeRank == InitNodeRank /\ [][NextNodeRank]_vars

\* ---------------------------------------------------------------- a rw_bfs run
\* One call of bfs_embedding_with_backtracking, iteration by iteration of its
\* while loop, on the arguments rw_bfs_algorithm hands it.
BfsSimIdle ==
    UNCHANGED <<algorithm, substrate, vnr_queue, cpu_available, bandwidth_available,
                events, pos, active_embeddings, results, before, after_call,
                removed, shadow, yu, nr>>

\* the locals of the loop, as BfsLoop and Backtrack take them
BfsLocals ==
    [node_mapping |-> bfs.node_mapping, link_mapping |-> bfs.link_mapping,
     backtrack_count |-> bfs.backtrack_count, current_index |-> bfs.current_index,
     tried_candidates |-> bfs.tried_candidates]

BfsVnr == vnr_queue[1]

BfsNode == bfs.bfs_order[bfs.current_index + 1]

\* match_vnr_node on the candidates of the current node not tried yet
BfsMatch ==
    match_vnr_node(substrate, cpu_available, bandwidth_available, BfsVnr, BfsNode,
                   SelectSeq(bfs.candidate_lists[BfsNode],
                             LAMBDA c : c \notin bfs.tried_candidates[BfsNode]),
                   bfs.node_mapping, bfs.bfs_parents, DefaultMaxHop)

\* one iteration of the while loop: a match, a backtrack, or the failure
BfsIterate ==
    /\ bfs.stage = "running"
    /\ bfs.current_index < Len(bfs.bfs_order)
    /\ LET match_result == BfsMatch
       IN /\ bfs' =
            IF match_result.success
            THEN [bfs EXCEPT
                     !.node_mapping = (BfsNode :> match_result.substrate_node) @@ @,
                     !.link_mapping = match_result.link_mappings @@ @,
                     !.current_index = @ + 1]
            ELSE IF MayBacktrack(BfsLocals, DefaultMaxBacktrack)
                 THEN LET st == Backtrack(bfs.bfs_order, BfsLocals)
                      IN [bfs EXCEPT
                             !.node_mapping = st.node_mapping,
                             !.link_mapping = st.link_mapping,
                             !.backtrack_count = st.backtrack_count,
                             !.current_index = st.current_index,
                             !.tried_candidates = st.tried_candidates]
                 ELSE [bfs EXCEPT !.stage = "returned", !.success = FALSE]
          /\ processed' =
                IF match_result.success
                THEN Append(processed, <<BfsNode, match_result.substrate_node>>)
                ELSE processed
    /\ BfsSimIdle

\* the loop condition is false: return node_mapping, link_mapping, True
BfsReturn ==
    /\ bfs.stage = "running"
    /\ bfs.current_index >= Len(bfs.bfs_order)
    /\ bfs' = [bfs EXCEPT !.stage = "returned", !.success = TRUE]
    /\ UNCHANGED processed
    /\ BfsSimIdle

\* bfs_embedding_with_backtracking is called on the VNR of the queue and the
\* substrate as it is, with the tree, the candidate lists and the ranks
\* rw_bfs_algorithm has made for them
BfsCalled ==
    /\ algorithm = "rw_bfs_algorithm"
    /\ \E b \in VnrBodies :
          vnr_queue = <<MakeVnr(1, [body |-> b, arrival_time |-> 0, lifetime |-> 0])>>
    /\ events = <<>>
    /\ pos = 0
    /\ active_embeddings = <<>>
    /\ results = <<>>
    /\ processed = <<>>
    /\ before = [cpu_available |-> cpu_available, bandwidth_available |-> bandwidth_available]
    /\ after_call = before
    /\ removed = 0
    /\ shadow = NoSecondRun
    /\ yu = NoYuRun
    /\ nr = NoRankRun
    /\ LET HS == SubstrateH(substrate, cpu_available, bandwidth_available)
           HV == VnrH(BfsVnr)
       IN /\ ~NodeRankUndefined(HS)
          /\ ~NodeRankUndefined(HV)
          /\ \E rs \in RankVectors(HS), rv \in RankVectors(HV) :
                LET tree == construct_bfs_tree_order(BfsVnr, rv)
                IN bfs = [NoBfsRun EXCEPT
                             !.stage = "running",
                             !.bfs_order = tree.bfs_order,
                             !.bfs_parents = tree.bfs_parents,
                             !.candidate_lists =
                                 build_candidate_lists(substrate, cpu_available,
                                                       bandwidth_available, BfsVnr, rs),
                             !.tried_candidates = [v \in Range(tree.bfs_order) |-> {}]]

\* the calls: a substrate with its CPU at the capacity and the bandwidth of
\* every link anywhere from 0 to the capacity (on Quad4: of every link of
\* less than BwCap), one VNR, and ranks compute_noderank can return for the two
InitBfs ==
    /\ substrate \in Substrates \cup {Quad4}
    /\ cpu_available = substrate.cpu
    /\ bandwidth_available \in [substrate.links -> 0..(BwCap + 1)]
    /\ \A l \in substrate.links :
          /\ bandwidth_available[l] <= substrate.bandwidth[l]
          /\ substrate = Quad4 =>
                bandwidth_available[l] >= (IF substrate.bandwidth[l] = BwCap THEN BwCap ELSE 0)
    /\ BfsCalled

\* the calls on the line of five nodes: all the bandwidth, the CPU of the two
\* ends at the capacity and the CPU of every node between them either used
\* up or at the capacity
InitHops ==
    /\ substrate = Line5
    /\ cpu_available \in [SNodes(substrate) -> {0, CpuCap}]
    /\ cpu_available[1] = CpuCap
    /\ cpu_available[5] = CpuCap
    /\ bandwidth_available = substrate.bandwidth
    /\ BfsCalled

NextBfs == BfsIterate \/ BfsReturn

SpecBfs == InitBfs /\ [][NextBfs]_vars

SpecHops == InitHops /\ [][NextBfs]_vars

\* an iteration or the return is left to take: ENABLED <<NextBfs>>_vars, read
\* off the guards of BfsIterate and BfsReturn
BfsNextEnabled == bfs.stage = "running"

\* the while loop runs on while its condition can be tested. This is
\* WF_vars(NextBfs), with its ENABLED written as BfsNextEnabled.
BfsFairness == []<>(~BfsNextEnabled) \/ []<><<NextBfs>>_vars

SpecBfsFair == InitBfs /\ [][NextBfs]_vars /\ BfsFairness

\* ================================================================ claims
LastProcessed == processed[Len(processed)]
LastResult == results[Len(results)]
JustArrived == processed /= <<>> /\ LastProcessed.type = "ARRIVAL"

\* what the history says: the VNRs accepted so far, and those whose departure
\* has been handled
AcceptedIds == {results[i].vnr_id : i \in {j \in DOMAIN results : results[j].success}}
DepartedIds ==
    {processed[i].vnr_id : i \in {j \in DOMAIN processed : processed[j].type = "DEPARTURE"}}

Injective(f) == \A x, y \in DOMAIN f : x /= y => f[x] /= f[y]

\* CPU that the embedding (nm of vnr) asks of substrate node s
CpuHeldOn(nm, vnr, s) ==
    SumOver({v \in DOMAIN nm : nm[v] = s}, [v \in DOMAIN nm |-> vnr.cpu_req[v]])

\* bandwidth that the embedding asks of substrate link l: the demand of every
\* virtual link whose path runs over l
BwHeldOn(lm, vnr, l) ==
    SumOver({e \in DOMAIN lm : l \in PathLinks(lm[e])},
            [e \in DOMAIN lm |-> BwReq(vnr, e[1], e[2])])

\* C1: after every event every substrate node has 0 <= cpu_available <= cpu
\* and every substrate link has 0 <= bandwidth_available <= bandwidth.
C1_CapacityInvariant ==
    /\ \A s \in SNodes(substrate) :
          0 <= cpu_available[s] /\ cpu_available[s] <= substrate.cpu[s]
    /\ \A l \in substrate.links :
          0 <= bandwidth_available[l] /\ bandwidth_available[l] <= substrate.bandwidth[l]

\* C2: after every event the capacity in use on each substrate node and link
\* is the sum of the demands the active embeddings place on it, and the
\* active embeddings are the VNRs accepted and not yet departed.
C2_AllocatedIffActive ==
    /\ DOMAIN active_embeddings = AcceptedIds \ DepartedIds
    /\ \A s \in SNodes(substrate) :
          substrate.cpu[s] - cpu_available[s] =
              SumOver(DOMAIN active_embeddings,
                      [id \in DOMAIN active_embeddings |->
                          CpuHeldOn(active_embeddings[id].node_mapping, vnr_queue[id], s)])
    /\ \A l \in substrate.links :
          substrate.bandwidth[l] - bandwidth_available[l] =
              SumOver(DOMAIN active_embeddings,
                      [id \in DOMAIN active_embeddings |->
                          BwHeldOn(active_embeddings[id].link_mapping, vnr_queue[id], l)])

\* C2 witness: an embedding is active on some link after another VNR departed
C2_Witness ==
    /\ DOMAIN active_embeddings /= {}
    /\ DepartedIds /= {}
    /\ \E l \in substrate.links : bandwidth_available[l] < substrate.bandwidth[l]

\* C3: right after a successful arrival, deallocating the same mapping gives
\* back the availability from before the allocation; every link was debited
\* the full bandwidth_req once per virtual link routed over it, a path of L
\* nodes over L-1 links, and nodes and links outside the mapping are untouched.
C3_RoundTrip ==
    (JustArrived /\ LastResult.success) =>
        LET nm == LastResult.node_mapping.map
            lm == LastResult.link_mapping.map
            vnr == vnr_queue[LastResult.vnr_id]
        IN /\ DeallocateCpu(cpu_available, nm, vnr) = before.cpu_available
           /\ DeallocateBw(bandwidth_available, lm, vnr) = before.bandwidth_available
           /\ \A e \in DOMAIN lm : Cardinality(PathLinks(lm[e])) = Len(lm[e]) - 1
           /\ \A l \in substrate.links :
                 before.bandwidth_available[l] - bandwidth_available[l] =
                     BwHeldOn(lm, vnr, l)
           /\ \A s \in SNodes(substrate) :
                 before.cpu_available[s] - cpu_available[s] = CpuHeldOn(nm, vnr, s)
           /\ \A s \in SNodes(substrate) \ Range(nm) :
                 cpu_available[s] = before.cpu_available[s]
           /\ \A l \in substrate.links \ UNION {PathLinks(lm[e]) : e \in DOMAIN lm} :
                 bandwidth_available[l] = before.bandwidth_available[l]

\* C3 witness: an accepted VNR with a two-hop path and two virtual links
\* routed over the same substrate link
C3_Witness ==
    /\ JustArrived
    /\ LastResult.success
    /\ LET lm == LastResult.link_mapping.map
       IN /\ \E e \in DOMAIN lm : Len(lm[e]) = 3
          /\ \E e1, e2 \in DOMAIN lm :
                e1 /= e2 /\ PathLinks(lm[e1]) \cap PathLinks(lm[e2]) /= {}

\* C4: the node_mapping of every successful embedding is injective, for the
\* three strategies run by vne_simulation (the results and the active
\* embeddings) and for yu2008_algorithm (the working table, the historical
\* table and the results returned).
C4_InjectiveNodeMapping ==
    /\ \A i \in DOMAIN results :
          results[i].success => Injective(results[i].node_mapping.map)
    /\ \A id \in DOMAIN active_embeddings : Injective(active_embeddings[id].node_mapping)
    /\ \A id \in DOMAIN yu.node_mapping : Injective(yu.node_mapping[id])
    /\ \A id \in DOMAIN yu.historical_node_mapping :
          Injective(yu.historical_node_mapping[id])
    /\ \A i \in DOMAIN yu.results :
          yu.results[i].success => Injective(yu.results[i].node_mapping.map)

\* the last arrival was accepted by rw_bfs_algorithm with the mapping that
\* bfs_embedding_with_backtracking reaches after at least one backtrack
AcceptedAfterBacktracking ==
    LET vnr == vnr_queue[LastResult.vnr_id]
        HS == SubstrateH(substrate, before.cpu_available, before.bandwidth_available)
        HV == VnrH(vnr)
    IN \E rs \in RankVectors(HS), rv \in RankVectors(HV) :
          LET tree == construct_bfs_tree_order(vnr, rv)
              candidate_lists ==
                  build_candidate_lists(substrate, before.cpu_available,
                                        before.bandwidth_available, vnr, rs)
              out == bfs_embedding_with_backtracking(
                         substrate, before.cpu_available, before.bandwidth_available,
                         vnr, tree.bfs_order, tree.bfs_parents, candidate_lists,
                         DefaultMaxHop, DefaultMaxBacktrack)
          IN /\ out.success
             /\ out.backtrack_count > 0
             /\ out.node_mapping = LastResult.node_mapping.map

\* C4 witness: rw_bfs_algorithm accepted a three-node VNR after backtracking
C4_Witness ==
    /\ algorithm = "rw_bfs_algorithm"
    /\ JustArrived
    /\ LastResult.success
    /\ vnr_queue[LastResult.vnr_id].n = 3
    /\ AcceptedAfterBacktracking

\* C5: a departure is handled before every arrival that carries its time stamp
\* (the VNR that departs having arrived earlier).
C5_DeparturesBeforeArrivals ==
    \A i, j \in DOMAIN processed :
        (/\ i < j
         /\ processed[i].type = "ARRIVAL"
         /\ processed[j].type = "DEPARTURE"
         /\ processed[i].time = processed[j].time)
        => vnr_queue[processed[j].vnr_id].arrival_time = processed[j].time

\* C6: the events are handled in non-decreasing time order, each event of the
\* list once and in list order, although the list grows and is re-sorted
\* during the loop.
C6_TimeOrder ==
    /\ \A i, j \in DOMAIN processed : i < j => processed[i].time <= processed[j].time
    /\ processed = SubSeq(events, 1, pos)

\* C6 witness: a departure inserted during the run was handled between two arrivals
C6_Witness ==
    /\ Done
    /\ \E i \in DOMAIN processed :
          /\ i + 1 \in DOMAIN processed
          /\ processed[i].type = "DEPARTURE"
          /\ processed[i + 1].type = "ARRIVAL"
          /\ processed[i].time < processed[i + 1].time

\* C7: a strategy call leaves the availability of the substrate as it found
\* it, and a failed call returns neither a node mapping nor a link mapping.
C7_CallLeavesSubstrate ==
    JustArrived =>
        /\ after_call = before
        /\ ~LastResult.success =>
              (LastResult.node_mapping.none /\ LastResult.link_mapping.none)

\* C8: at the end there is exactly one result per VNR, in non-decreasing
\* arrival_time order; the currently_active of a result is the number of VNRs
\* accepted and not yet departed right after that arrival, the arriving VNR
\* included when it was accepted.
C8_OneResultPerVnr ==
    /\ Done =>
          /\ Len(results) = Len(vnr_queue)
          /\ {results[i].vnr_id : i \in DOMAIN results} = 1..Len(vnr_queue)
    /\ \A i, j \in DOMAIN results :
          i < j => results[i].arrival_time <= results[j].arrival_time
    /\ \A i \in DOMAIN results :
          results[i].arrival_time = vnr_queue[results[i].vnr_id].arrival_time
    /\ JustArrived =>
          /\ LastResult.vnr_id = LastProcessed.vnr_id
          /\ LastResult.currently_active = Cardinality(AcceptedIds \ DepartedIds)
          /\ LastResult.success <=> LastResult.vnr_id \in AcceptedIds \ DepartedIds

\* C8 witness: the queue was not in arrival order, a VNR failed, and a VNR was
\* accepted after another one had departed
C8_Witness ==
    /\ Done
    /\ \E i, j \in DOMAIN vnr_queue :
          i < j /\ vnr_queue[i].arrival_time > vnr_queue[j].arrival_time
    /\ \E i \in DOMAIN results : ~results[i].success
    /\ \E i \in DOMAIN processed :
          /\ i + 1 \in DOMAIN processed
          /\ processed[i].type = "DEPARTURE"
          /\ processed[i + 1].type = "ARRIVAL"
          /\ processed[i + 1].vnr_id \in AcceptedIds

\* C9, on the 2-node, 1-link substrate with the greedy strategy.
\* the VNRs accepted before the last arrival and not departed when it came
ActiveAtLastArrival == (AcceptedIds \ DepartedIds) \ {LastResult.vnr_id}

\* some virtual node of b fits on no substrate node next to what a holds there
Overcommits(a, b) ==
    \E v \in VNodes(b) :
        \A s \in SNodes(substrate) :
            CpuHeldOn(results[CHOOSE i \in DOMAIN results : results[i].vnr_id = a.vnr_id]
                          .node_mapping.map, a, s)
            + b.cpu_req[v] > substrate.cpu[s]

\* the demands of b fit into the unused substrate
FitsEmptySubstrate(b) ==
    /\ b.n <= substrate.n
    /\ \A v \in VNodes(b) : \A s \in SNodes(substrate) : b.cpu_req[v] <= substrate.cpu[s]
    /\ \A i \in DOMAIN b.bandwidth_req :
          \A l \in substrate.links : b.bandwidth_req[i] <= substrate.bandwidth[l]

\* C9: a VNR arriving while an accepted VNR is active, the two together asking
\* more CPU than a node has, is rejected and the earlier one keeps its
\* resources; a VNR that arrives after the departures, and fits, is accepted.
C9_RejectThenAccept ==
    (JustArrived /\ algorithm = "simple_greedy_algorithm" /\ substrate = Sub2) =>
        LET b == vnr_queue[LastResult.vnr_id]
        IN /\ \A id \in ActiveAtLastArrival :
                 Overcommits(vnr_queue[id], b) =>
                     /\ ~LastResult.success
                     /\ id \in DOMAIN active_embeddings
                     /\ \A s \in SNodes(substrate) :
                           cpu_available[s] <=
                               substrate.cpu[s]
                               - CpuHeldOn(active_embeddings[id].node_mapping,
                                           vnr_queue[id], s)
           /\ (ActiveAtLastArrival = {} /\ DepartedIds /= {} /\ FitsEmptySubstrate(b))
                 => LastResult.success

\* C9 witness: accepted, rejected while the first is active, first departs,
\* third accepted
C9_Witness ==
    /\ JustArrived /\ algorithm = "simple_greedy_algorithm" /\ substrate = Sub2
    /\ Len(processed) = 4
    /\ processed[1].type = "ARRIVAL" /\ processed[2].type = "ARRIVAL"
    /\ processed[3].type = "DEPARTURE" /\ processed[4].type = "ARRIVAL"
    /\ processed[3].time < processed[4].time
    /\ results[1].success /\ ~results[2].success /\ results[3].success
    /\ Overcommits(vnr_queue[results[1].vnr_id], vnr_queue[results[2].vnr_id])
    /\ FitsEmptySubstrate(vnr_queue[results[3].vnr_id])

\* C10: once the VNR left out of the second run has failed in the first,
\* the results of all other VNRs are the same in both runs (success,
\* node_mapping, link_mapping, currently_active), result by result, and the
\* two runs end together.
C10_FailedVnrHasNoInfluence ==
    RemovedFailed =>
        /\ SelectSeq(results, LAMBDA x : x.vnr_id /= removed) = shadow.results
        /\ Done => ShadowDone

\* C10 witness: the VNR left out failed while another was active, and a VNR
\* was accepted after it
C10_Witness ==
    /\ Done /\ ShadowDone /\ RemovedFailed
    /\ \E i, j, k \in DOMAIN results :
          /\ i < j /\ j < k
          /\ results[i].success
          /\ results[j].vnr_id = removed /\ results[j].currently_active > 0
          /\ results[k].success

\* the number of ARRIVAL events handled so far
ArrivalsHandled ==
    Cardinality({i \in DOMAIN processed : processed[i].type = "ARRIVAL"})

\* the allocation of the last arrival took a node or a link below zero
LastAllocationOverdrew ==
    /\ JustArrived
    /\ \/ \E s \in SNodes(substrate) :
             cpu_available[s] < 0 /\ cpu_available[s] < before.cpu_available[s]
       \/ \E l \in substrate.links :
             bandwidth_available[l] < 0
             /\ bandwidth_available[l] < before.bandwidth_available[l]

\* C11: an allocation that takes cpu_available or bandwidth_available below
\* zero aborts the run: the loop does not go on to record a result for that
\* arrival, and no later event is handled with the negative count in place.
C11_OverdraftAborts ==
    LastAllocationOverdrew => Len(results) < ArrivalsHandled

GreedyBefore(cpu, s1, s2) == cpu[s1] > cpu[s2] \/ (cpu[s1] = cpu[s2] /\ s1 < s2)

\* substrate node s can take virtual node v next to the hosts of the virtual
\* nodes placed before v
GreedyFits(cpu, vnr, pm, v, s) ==
    /\ \A w \in DOMAIN pm : w < v => pm[w] /= s
    /\ cpu[s] >= vnr.cpu_req[v]

\* pm[v] is the first substrate node of the order that can take v
GreedyFirstChoice(cpu, vnr, pm, v) ==
    /\ GreedyFits(cpu, vnr, pm, v, pm[v])
    /\ \A s \in SNodes(substrate) :
          GreedyBefore(cpu, s, pm[v]) => ~GreedyFits(cpu, vnr, pm, v, s)

\* placing the virtual nodes in order, each on its first choice, some virtual
\* node finds no substrate node
GreedyStuck(cpu, vnr) ==
    \E v \in VNodes(vnr) :
        \E pm \in [1..(v - 1) -> SNodes(substrate)] :
            /\ \A w \in 1..(v - 1) : GreedyFirstChoice(cpu, vnr, pm, w)
            /\ \A s \in SNodes(substrate) : ~GreedyFits(cpu, vnr, pm, v, s)

\* some assignment of the virtual nodes to distinct substrate nodes with
\* enough CPU exists
SomeNodeAssignment(cpu, vnr) ==
    \E pm \in [VNodes(vnr) -> SNodes(substrate)] :
        /\ Injective(pm)
        /\ \A v \in VNodes(vnr) : cpu[pm[v]] >= vnr.cpu_req[v]

\* C13: simple_greedy_algorithm places the virtual nodes in node order, each
\* on the first substrate node, by descending cpu_available as it was at the
\* start of the call, that this VNR does not use yet and that has
\* cpu_available >= cpu_req; the first virtual node so gets the node with the
\* largest cpu_available; the request fails as soon as a virtual node finds
\* no such substrate node.
C13_GreedyFirstFit ==
    (JustArrived /\ algorithm = "simple_greedy_algorithm") =>
        LET cpu == before.cpu_available
            vnr == vnr_queue[LastResult.vnr_id]
            nm == LastResult.node_mapping.map
        IN /\ LastResult.success =>
                 /\ DOMAIN nm = VNodes(vnr)
                 /\ \A v \in VNodes(vnr) : GreedyFirstChoice(cpu, vnr, nm, v)
                 /\ \A s \in SNodes(substrate) : cpu[nm[1]] >= cpu[s]
           /\ GreedyStuck(cpu, vnr) => ~LastResult.success

\* C13 witness: the request failed at a virtual node although an assignment
\* to distinct substrate nodes with enough CPU existed
C13_Witness ==
    /\ JustArrived /\ algorithm = "simple_greedy_algorithm"
    /\ ~LastResult.success
    /\ GreedyStuck(before.cpu_available, vnr_queue[LastResult.vnr_id])
    /\ SomeNodeAssignment(before.cpu_available, vnr_queue[LastResult.vnr_id])

\* C14, for a call of simple_greedy_algorithm: the hosts the node phase gives
\* the virtual nodes, when it places them all
GreedyHosts(cpu, vnr) ==
    {pm \in [VNodes(vnr) -> SNodes(substrate)] :
        \A v \in VNodes(vnr) : GreedyFirstChoice(cpu, vnr, pm, v)}

\* the shortest path of virtual edge e between the hosts pm is missing or
\* has an edge with less bandwidth_available than e asks for
ShortestPathFails(bw, vnr, pm, e) ==
    LET path == ShortestPath(substrate, pm[e[1]], pm[e[2]])
    IN \/ path = <<>>
       \/ \E l \in PathLinks(path) : bw[l] < BwReq(vnr, e[1], e[2])

\* some simple path between the hosts of e has the bandwidth on every edge
LongerPathFits(bw, vnr, pm, e) ==
    \E p \in SimplePaths(substrate, pm[e[1]], pm[e[2]]) :
        \A l \in PathLinks(p) : bw[l] >= BwReq(vnr, e[1], e[2])

\* C14: every path of a successful simple_greedy_algorithm link_mapping is a
\* minimum-hop path between the hosts of the virtual edge's endpoints, and
\* each of its edges has bandwidth_available >= bandwidth_req; when the
\* shortest path of some virtual edge is short of bandwidth or does not
\* exist, the request fails.
C14_GreedyShortestPathOnly ==
    (JustArrived /\ algorithm = "simple_greedy_algorithm") =>
        LET cpu == before.cpu_available
            bw == before.bandwidth_available
            vnr == vnr_queue[LastResult.vnr_id]
            nm == LastResult.node_mapping.map
            lm == LastResult.link_mapping.map
        IN /\ LastResult.success =>
                 /\ DOMAIN lm = Range(VEdges(vnr))
                 /\ \A e \in DOMAIN lm :
                       /\ lm[e] \in SimplePaths(substrate, nm[e[1]], nm[e[2]])
                       /\ \A p \in SimplePaths(substrate, nm[e[1]], nm[e[2]]) :
                             Len(lm[e]) <= Len(p)
                       /\ \A l \in PathLinks(lm[e]) : bw[l] >= BwReq(vnr, e[1], e[2])
           /\ \A pm \in GreedyHosts(cpu, vnr) :
                 (\E e \in Range(VEdges(vnr)) : ShortestPathFails(bw, vnr, pm, e))
                     => ~LastResult.success

\* C14 witness: the request failed on a virtual edge whose shortest path was
\* short of bandwidth while a longer path between the same hosts had it
C14_Witness ==
    /\ JustArrived /\ algorithm = "simple_greedy_algorithm"
    /\ ~LastResult.success
    /\ \E pm \in GreedyHosts(before.cpu_available, vnr_queue[LastResult.vnr_id]) :
          \E e \in Range(VEdges(vnr_queue[LastResult.vnr_id])) :
              /\ ShortestPathFails(before.bandwidth_available, vnr_queue[LastResult.vnr_id], pm, e)
              /\ LongerPathFits(before.bandwidth_available, vnr_queue[LastResult.vnr_id], pm, e)

\* C15: the weights compute_noderank had before the last arrival
SubstrateHBefore == SubstrateH(substrate, before.cpu_available, before.bandwidth_available)
VnrHOfLast == VnrH(vnr_queue[LastResult.vnr_id])

\* the last call returned None, None, False and left the substrate as it was
FailedUntouched ==
    /\ ~LastResult.success
    /\ LastResult.node_mapping = NoMapping
    /\ LastResult.link_mapping = NoMapping
    /\ after_call = before

\* C15: when the weights H(u) of the substrate or of the VNR sum to zero,
\* rw_bfs_algorithm and rw_maxmatch_algorithm return failure for the VNR
\* without mapping a node or a link; on a substrate whose node CPUs are all
\* zero the weights sum to zero and every VNR is rejected.
C15_UndefinedRankRejects ==
    JustArrived =>
        /\ (TotalH(SubstrateHBefore) = 0 \/ TotalH(VnrHOfLast) = 0) => FailedUntouched
        /\ (\A u \in SNodes(substrate) : substrate.cpu[u] = 0) =>
              /\ TotalH(SubstrateHBefore) = 0
              /\ \A i \in DOMAIN results : ~results[i].success

\* C15 witness: a VNR of non-zero weight was rejected on the substrate whose
\* node CPUs are all zero, after a run that handled more than one arrival
C15_Witness ==
    /\ JustArrived
    /\ \A u \in SNodes(substrate) : substrate.cpu[u] = 0
    /\ TotalH(VnrHOfLast) /= 0
    /\ Len(results) > 1
    /\ FailedUntouched

\* C16: the weight of substrate node u from the available values alone
AvailableH(u) ==
    cpu_available[u]
    * SumOver({l \in substrate.links : u \in l},
              [l \in substrate.links |-> bandwidth_available[l]])

\* C16: when a NodeRank strategy is about to be called, compute_noderank
\* takes H(u) of the substrate from cpu_available and bandwidth_available,
\* which every substrate node and edge carries: a node with cpu_available 0
\* has H(u) = 0 and an edge with bandwidth_available 0 adds no bandwidth.
C16_AvailableValuesUsed ==
    (algorithm \in RankedAlgorithms /\ pos < Len(events) /\ NextEvent.type = "ARRIVAL") =>
        \A u \in SNodes(substrate) :
            SubstrateH(substrate, cpu_available, bandwidth_available)[u] = AvailableH(u)

\* C17: when compute_noderank does not return the undefined sentinel, the
\* initial ranks NR0(u) = H(u) / total_H sum to 1 over the nodes, and, the
\* CPU and bandwidth values being non-negative, no rank it holds or returns
\* is negative.
C17_RanksNormalisedNonNegative ==
    (nr.stage \in {"refining", "returned"} /\ ~nr.undefined) =>
        /\ \A u \in RankNodes : nr.rank0[u].den = nr.total_H /\ nr.total_H /= 0
        /\ SumOver(RankNodes, [u \in RankNodes |-> nr.rank0[u].num]) = nr.total_H
        /\ \A u \in RankNodes : nr.node_rank[u] >= 0

\* C17 witness: ranks were returned after all the rounds for a substrate
\* with a node whose cpu_available is 0
C17_Witness ==
    /\ nr.stage = "returned" /\ ~nr.undefined
    /\ nr.graph = "substrate"
    /\ nr.iteration = max_iterations
    /\ \E u \in SNodes(substrate) : cpu_available[u] = 0

\* C18: the chunks of yu2008_algorithm that hold the VNR, each of which the
\* loop attempts the VNR in, and how often chunk c holds it
YuChunksOf(vnr_id) ==
    {c \in DOMAIN yu.chunks : \E k \in DOMAIN yu.chunks[c] : yu.chunks[c][k] = vnr_id}

YuTimesIn(vnr_id, c) ==
    Cardinality({k \in DOMAIN yu.chunks[c] : yu.chunks[c][k] = vnr_id})

\* the VNR has failed and has not been embedded since
YuFailedFor(vnr_id) ==
    vnr_id \in yu.retried /\ vnr_id \notin yu.successfully_embedded_vnrs

\* C18: a VNR that fails in the chunk c where it first appears is in chunk
\* c + 1 once the loop has left chunk c, once; it is in no other chunk, so it
\* is attempted in at most two chunks, whatever happens later; a VNR that has
\* not failed is in one chunk only.
C18_RetriedOnceInNextChunk ==
    \A vnr_id \in DOMAIN vnr_queue :
        LET cs == YuChunksOf(vnr_id)
        IN /\ cs /= {}
           /\ \A c \in cs : YuTimesIn(vnr_id, c) = 1
           /\ cs \subseteq {Min(cs), Min(cs) + 1}
           /\ (Min(cs) + 1 \in cs) => vnr_id \in yu.retried
           /\ (vnr_id \in yu.retried /\ yu.i > Min(cs)) => (Min(cs) + 1 \in cs)

\* C18 witness: a VNR failed in its first chunk and again in the following
\* one, and the loop went through a later chunk without it
C18_Witness ==
    /\ yu.stage = "returned"
    /\ \E vnr_id \in DOMAIN vnr_queue :
          /\ YuFailedFor(vnr_id)
          /\ Cardinality(YuChunksOf(vnr_id)) = 2
          /\ \E c \in DOMAIN yu.chunks : \A c2 \in YuChunksOf(vnr_id) : c > c2

\* C19: the VNR the last step of the chunk handled, and whether that step
\* was its node mapping or its link mapping
YuAfterNodeStep == yu.stage = "mapping" /\ yu.node_pos > 0 /\ yu.link_pos = 0
YuAfterLinkStep == yu.stage = "mapping" /\ yu.link_pos > 0

YuLastVnr ==
    IF yu.link_pos = 0 THEN YuChunk[yu.node_pos]
    ELSE SortByRevenue(yu.successfully_mapped_vnrs, vnr_queue)[yu.link_pos]

YuNodeStepFailed == YuAfterNodeStep /\ YuLastVnr \notin DOMAIN yu.node_mapping
YuLinkStepFailed == YuAfterLinkStep /\ YuLastVnr \notin DOMAIN yu.active_embeddings

\* what the working tables node_mapping and link_mapping hold on node s and
\* on link l
YuCpuInTables(s) ==
    SumOver(DOMAIN yu.node_mapping,
            [id \in DOMAIN yu.node_mapping |->
                CpuHeldOn(yu.node_mapping[id], vnr_queue[id], s)])

YuBwInTables(l) ==
    SumOver(DOMAIN yu.link_mapping,
            [id \in DOMAIN yu.link_mapping |->
                BwHeldOn(yu.link_mapping[id], vnr_queue[id], l)])

\* C19: when a VNR fails at node mapping the step leaves cpu_available and
\* bandwidth_available as it found them; when it fails at link mapping the
\* step leaves bandwidth_available as it found it and credits the VNR's
\* whole CPU demand; either way the VNR has no entry in the working tables,
\* and what is debited on every node and link is what the tables hold for
\* the other VNRs.
C19_FailureRollsBack ==
    /\ YuNodeStepFailed =>
          /\ cpu_available = before.cpu_available
          /\ bandwidth_available = before.bandwidth_available
    /\ YuLinkStepFailed =>
          /\ bandwidth_available = before.bandwidth_available
          /\ \A s \in SNodes(substrate) : cpu_available[s] >= before.cpu_available[s]
          /\ SumOver(SNodes(substrate),
                     [s \in SNodes(substrate) |-> cpu_available[s] - before.cpu_available[s]])
                = SeqSum(vnr_queue[YuLastVnr].cpu_req)
    /\ (YuNodeStepFailed \/ YuLinkStepFailed) =>
          /\ YuLastVnr \notin DOMAIN yu.node_mapping
          /\ YuLastVnr \notin DOMAIN yu.link_mapping
    /\ yu.stage /= "idle" =>
          /\ \A s \in SNodes(substrate) :
                cpu_available[s] = substrate.cpu[s] - YuCpuInTables(s)
          /\ \A l \in substrate.links :
                bandwidth_available[l] = substrate.bandwidth[l] - YuBwInTables(l)

\* C19 witness: a VNR failed at link mapping after some of its links had
\* been routed, while another VNR held resources
C19_Witness ==
    /\ YuLinkStepFailed
    /\ after_call.bandwidth_available /= bandwidth_available
    /\ DOMAIN yu.node_mapping /= {}

\* the other case of C19: a VNR failed at node mapping after some of
\* its virtual nodes had been placed
YuNodeRollBackSeen ==
    /\ YuNodeStepFailed
    /\ after_call.cpu_available /= cpu_available

\* C20: an availability within the capacities of the substrate
WithinCapacity(av) ==
    /\ \A s \in SNodes(substrate) :
          0 <= av.cpu_available[s] /\ av.cpu_available[s] <= substrate.cpu[s]
    /\ \A l \in substrate.links :
          /\ 0 <= av.bandwidth_available[l]
          /\ av.bandwidth_available[l] <= substrate.bandwidth[l]

\* C20: throughout yu2008_algorithm, started at cpu_available = cpu and
\* bandwidth_available = bandwidth, every node has 0 <= cpu_available <= cpu
\* and every link 0 <= bandwidth_available <= bandwidth: after the
\* departures, after the node mapping and after the link mapping of every
\* VNR, and where the debits of a VNR stood before they were rolled back.
C20_YuWithinCapacity ==
    yu.stage /= "idle" =>
        /\ WithinCapacity([cpu_available |-> cpu_available,
                           bandwidth_available |-> bandwidth_available])
        /\ WithinCapacity(before)
        /\ WithinCapacity(after_call)

\* C20 witness: between the two passes of a chunk a node is down to
\* cpu_available 0, after a roll back in the same chunk
C20_Witness ==
    /\ yu.stage = "mapping"
    /\ yu.node_pos = Len(YuChunk) /\ yu.link_pos = 0
    /\ yu.failed_vnrs /= <<>>
    /\ yu.successfully_mapped_vnrs /= <<>>
    /\ \E s \in SNodes(substrate) : cpu_available[s] = 0

\* C21: the loop of yu2008_algorithm has finished a chunk and has not begun
\* the next one
YuChunkEnded == yu.stage \in {"departures", "results", "returned"} /\ yu.i > 1

\* C21: at the end of every chunk the working tables node_mapping and
\* link_mapping hold entries for exactly the embeddings in
\* active_embeddings, and total minus available on every substrate node and
\* link is the sum of the demands of those embeddings mapped onto it; a VNR
\* that failed or departed holds nothing.
C21_ConsumedIsActive ==
    YuChunkEnded =>
        /\ DOMAIN yu.node_mapping = DOMAIN yu.active_embeddings
        /\ DOMAIN yu.link_mapping = DOMAIN yu.active_embeddings
        /\ \A s \in SNodes(substrate) :
              substrate.cpu[s] - cpu_available[s]
                = SumOver(DOMAIN yu.active_embeddings,
                          [id \in DOMAIN yu.active_embeddings |->
                              CpuHeldOn(yu.node_mapping[id], vnr_queue[id], s)])
        /\ \A l \in substrate.links :
              substrate.bandwidth[l] - bandwidth_available[l]
                = SumOver(DOMAIN yu.active_embeddings,
                          [id \in DOMAIN yu.active_embeddings |->
                              BwHeldOn(yu.link_mapping[id], vnr_queue[id], l)])

\* C21 witness: at the end of a chunk one embedding with virtual links is
\* active and another VNR, embedded earlier, has departed
C21_Witness ==
    /\ YuChunkEnded
    /\ \E id \in DOMAIN yu.active_embeddings : yu.link_mapping[id] /= <<>>
    /\ \E id \in yu.successfully_embedded_vnrs : id \notin DOMAIN yu.active_embeddings

\* C22: the VNR was embedded at the boundary time of the current chunk
YuEmbeddedNow(id) == yu.embedding_time[id] = YuCurrentTime

\* C22: an active embedding has departure_time = the boundary time of the
\* chunk it was embedded in + its lifetime; while the VNRs of the chunk with
\* boundary time T are attempted, the embeddings of earlier chunks with
\* departure_time <= T have been deallocated and those with a later
\* departure_time are still allocated.
C22_DeparturesAtBoundary ==
    /\ \A id \in DOMAIN yu.active_embeddings :
          yu.active_embeddings[id] = yu.embedding_time[id] + vnr_queue[id].lifetime
    /\ yu.stage = "mapping" =>
          \A id \in yu.successfully_embedded_vnrs :
              ~YuEmbeddedNow(id) =>
                  /\ (yu.embedding_time[id] + vnr_queue[id].lifetime <= YuCurrentTime)
                        => /\ id \notin DOMAIN yu.active_embeddings
                           /\ id \notin DOMAIN yu.node_mapping
                           /\ id \notin DOMAIN yu.link_mapping
                  /\ (yu.embedding_time[id] + vnr_queue[id].lifetime > YuCurrentTime)
                        => /\ id \in DOMAIN yu.active_embeddings
                           /\ id \in DOMAIN yu.node_mapping

\* C22 witness: in the chunk of boundary time T, before any of its VNRs is
\* attempted, an embedding with departure_time = T has just been
\* deallocated and the substrate is free again
C22_Witness ==
    /\ yu.stage = "mapping" /\ yu.node_pos = 0
    /\ \E id \in yu.successfully_embedded_vnrs :
          /\ yu.embedding_time[id] + vnr_queue[id].lifetime = YuCurrentTime
          /\ vnr_queue[id].lifetime > 0
    /\ before.cpu_available /= cpu_available
    /\ cpu_available = substrate.cpu

\* the other case of C22: an embedding of an earlier chunk is still
\* allocated in a chunk whose boundary time is before its departure_time
YuStillAllocatedSeen ==
    /\ yu.stage = "mapping"
    /\ \E id \in DOMAIN yu.active_embeddings :
          /\ yu.embedding_time[id] < YuCurrentTime
          /\ yu.active_embeddings[id] > YuCurrentTime

\* C23: yu2008_algorithm attempts a VNR of a chunk only at a boundary time
\* that is not before the VNR's arrival_time, and every embedded VNR has
\* embedding_time >= arrival_time.
C23_NotBeforeArrival ==
    /\ yu.stage = "mapping" =>
          \A k \in 1..yu.node_pos : vnr_queue[YuChunk[k]].arrival_time <= YuCurrentTime
    /\ \A id \in yu.successfully_embedded_vnrs :
          yu.embedding_time[id] >= vnr_queue[id].arrival_time

\* C24: what is on record for an embedded VNR: the boundary time of a chunk
\* that held it, and the mappings the working tables held when it was
\* embedded
YuRecordKept ==
    \A id \in yu.successfully_embedded_vnrs :
        /\ yu.embedding_time[id] \in {c * time_window : c \in YuChunksOf(id)}
        /\ (id \in yu.retried) => yu.embedding_time[id] = (Min(YuChunksOf(id)) + 1) * time_window
        /\ DOMAIN yu.historical_node_mapping[id] = VNodes(vnr_queue[id])
        /\ DOMAIN yu.historical_link_mapping[id] = Range(VEdges(vnr_queue[id]))
        /\ (id \in DOMAIN yu.active_embeddings) =>
              /\ yu.historical_node_mapping[id] = yu.node_mapping[id]
              /\ yu.historical_link_mapping[id] = yu.link_mapping[id]

\* the result list has one result per vnr_id, successful iff the VNR was
\* embedded, with the recorded times and mappings, or with none
YuResultsAsRecorded ==
    yu.stage = "returned" =>
        /\ Len(yu.results) = Len(vnr_queue)
        /\ \A id \in DOMAIN vnr_queue :
              /\ Cardinality({k \in DOMAIN yu.results : yu.results[k].vnr_id = id}) = 1
              /\ \A k \in DOMAIN yu.results :
                    yu.results[k].vnr_id = id =>
                        LET r == yu.results[k]
                        IN /\ r.success <=> id \in yu.successfully_embedded_vnrs
                           /\ r.arrival_time = vnr_queue[id].arrival_time
                           /\ r.success =>
                                 /\ r.embedding_time = Some(yu.embedding_time[id])
                                 /\ r.node_mapping = Some(yu.historical_node_mapping[id])
                                 /\ r.link_mapping = Some(yu.historical_link_mapping[id])
                           /\ ~r.success =>
                                 /\ r.embedding_time = NoMapping
                                 /\ r.node_mapping = NoMapping
                                 /\ r.link_mapping = NoMapping

\* a step leaves what is on record for an embedded VNR as it is
YuRecordStays ==
    \A id \in yu.successfully_embedded_vnrs :
        /\ id \in yu'.successfully_embedded_vnrs
        /\ yu'.embedding_time[id] = yu.embedding_time[id]
        /\ yu'.historical_node_mapping[id] = yu.historical_node_mapping[id]
        /\ yu'.historical_link_mapping[id] = yu.historical_link_mapping[id]

\* C24: yu2008_algorithm returns one result per vnr_id of the chunk list,
\* requeued VNRs included; a result is successful iff the VNR was fully
\* embedded in some chunk, and then carries the original arrival_time, that
\* chunk's boundary time as embedding_time and the mappings chosen then,
\* which no later step, departure included, changes; a failed result
\* carries no mappings and no embedding_time.
C24_OneResultPerVnr ==
    /\ [](YuRecordKept /\ YuResultsAsRecorded)
    /\ [][YuRecordStays]_vars

\* C24 witness: results were returned with a successful result for a VNR
\* that had been requeued and one for a VNR with virtual links that had
\* departed before the end
C24_Witness ==
    /\ yu.stage = "returned"
    /\ \E id \in yu.successfully_embedded_vnrs : id \in yu.retried
    /\ \E id \in yu.successfully_embedded_vnrs :
          /\ id \notin DOMAIN yu.active_embeddings
          /\ yu.historical_link_mapping[id] /= <<>>

\* C25: 2 x (sum of cpu_req) + (sum of bandwidth_req)
RevenueTwoToOne(id) ==
    2 * SeqSum(vnr_queue[id].cpu_req) + SeqSum(vnr_queue[id].bandwidth_req)

PositionIn(seq, id) == CHOOSE k \in DOMAIN seq : seq[k] = id

\* new holds the VNRs of old by descending revenue, those of equal revenue
\* in the order they have in old
SortedByRevenueFrom(old, new) ==
    /\ Len(new) = Len(old)
    /\ Range(new) = Range(old)
    /\ \A a, b \in DOMAIN new :
          a < b =>
              \/ RevenueTwoToOne(new[a]) > RevenueTwoToOne(new[b])
              \/ /\ RevenueTwoToOne(new[a]) = RevenueTwoToOne(new[b])
                 /\ PositionIn(old, new[a]) < PositionIn(old, new[b])

\* the head of a chunk sorts the chunk
YuSortStep ==
    (yu.stage = "departures" /\ yu'.stage = "mapping") =>
        SortedByRevenueFrom(yu.chunks[yu.i], yu'.chunks[yu.i])

\* the node mapping pass takes the VNRs in the order of the sorted chunk:
\* the VNR a step decides on is the next of the chunk
YuNodeStepInOrder ==
    (yu.stage = "mapping" /\ yu'.node_pos = yu.node_pos + 1) =>
        /\ yu'.chunks = yu.chunks
        /\ \E id \in Range(YuChunk) :
              /\ PositionIn(YuChunk, id) = yu.node_pos + 1
              /\ \/ yu'.successfully_mapped_vnrs = Append(yu.successfully_mapped_vnrs, id)
                 \/ /\ yu'.successfully_mapped_vnrs = yu.successfully_mapped_vnrs
                    /\ id \notin DOMAIN yu'.node_mapping

\* the VNRs whose nodes are mapped and whose links are not yet
YuLinksPending(y) == DOMAIN y.node_mapping \ DOMAIN y.active_embeddings

\* the link mapping pass begins after the node mapping pass and takes the
\* node-mapped VNRs by descending revenue, those of equal revenue in the
\* order the node mapping pass took them
YuLinkStepInOrder ==
    (yu.stage = "mapping" /\ yu'.link_pos = yu.link_pos + 1) =>
        /\ yu.node_pos = Len(YuChunk)
        /\ \E id \in YuLinksPending(yu) \ YuLinksPending(yu') :
              \A w \in YuLinksPending(yu') :
                  \/ RevenueTwoToOne(id) > RevenueTwoToOne(w)
                  \/ /\ RevenueTwoToOne(id) = RevenueTwoToOne(w)
                     /\ PositionIn(YuChunk, id) < PositionIn(YuChunk, w)

\* C25: within each chunk yu2008_algorithm attempts node mapping, and
\* afterwards link mapping, by descending revenue 2 x (sum of cpu_req) +
\* (sum of bandwidth_req), VNRs of equal revenue keeping their previous
\* relative order.
C25_DescendingRevenue == [][YuSortStep /\ YuNodeStepInOrder /\ YuLinkStepInOrder]_vars

\* C25 witness: the VNR of higher revenue arrived later, was placed first in
\* the chunk and is embedded, and the VNR of lower revenue failed in the
\* same chunk
C25_Witness ==
    /\ yu.stage = "mapping"
    /\ Len(YuChunk) = 2
    /\ yu.node_pos = 2 /\ yu.link_pos = Len(yu.successfully_mapped_vnrs)
    /\ RevenueTwoToOne(YuChunk[1]) > RevenueTwoToOne(YuChunk[2])
    /\ vnr_queue[YuChunk[1]].arrival_time > vnr_queue[YuChunk[2]].arrival_time
    /\ YuChunk[1] \in DOMAIN yu.active_embeddings
    /\ yu.failed_vnrs = <<YuChunk[2]>>

\* the other case of C25: two VNRs of equal revenue were both node-mapped
\* and the link mapping pass has taken the first of them
YuEqualRevenueSeen ==
    /\ yu.stage = "mapping"
    /\ Len(YuChunk) = 2
    /\ RevenueTwoToOne(YuChunk[1]) = RevenueTwoToOne(YuChunk[2])
    /\ YuChunk[1] > YuChunk[2]
    /\ yu.link_pos = 1

\* C26: the virtual links routed in the last link mapping step, in the order
\* of vnr.edges(), debited one after the other from the availability bw:
\* every edge of the path of a link has the bandwidth when its turn comes
RECURSIVE YuRoutedInTurn(_, _, _, _, _)
YuRoutedInTurn(bw, vnr, edges, lm, j) ==
    IF j > Len(edges) \/ edges[j] \notin DOMAIN lm THEN [checked |-> TRUE, bw |-> bw]
    ELSE LET req == BwReq(vnr, edges[j][1], edges[j][2])
             links == PathLinks(lm[edges[j]])
         IN IF \E l \in links : bw[l] < req THEN [checked |-> FALSE, bw |-> bw]
            ELSE YuRoutedInTurn([l \in DOMAIN bw |-> IF l \in links THEN bw[l] - req
                                                     ELSE bw[l]],
                                vnr, edges, lm, j + 1)

\* C26: in the link mapping pass a path is debited only when every edge of
\* it has bandwidth_available >= bandwidth_req in the state of that moment,
\* and nothing else is debited: the bandwidth debited by a VNR's pass is
\* that of the paths it routed, each checked whole in its turn.
C26_DebitAfterWholePathCheck ==
    YuAfterLinkStep =>
        LET vnr == vnr_queue[YuLastVnr]
            edges == VEdges(vnr)
            lm == after_call.link_mapping
            turn == YuRoutedInTurn(before.bandwidth_available, vnr, edges, lm, 1)
        IN /\ \A j \in DOMAIN edges :
                 edges[j] \in DOMAIN lm => \A i \in 1..j : edges[i] \in DOMAIN lm
           /\ turn.checked
           /\ turn.bw = after_call.bandwidth_available

\* C26 witness: a link was routed over a path that is not the shortest one
\* between its hosts, the shorter one having been found short of bandwidth
\* and left without a debit
C26_Witness ==
    /\ YuAfterLinkStep
    /\ \E e \in DOMAIN after_call.link_mapping :
          LET path == after_call.link_mapping[e]
          IN Len(path) > Len(ShortestPath(substrate, path[1], path[Len(path)]))

\* C27: the simple paths between s and t that fewer than three simple paths
\* come before, by length
ThreeShortest(s, t) ==
    LET P == SimplePaths(substrate, s, t)
    IN {p \in P : Cardinality({q \in P : PathBefore(q, p, substrate.n + 1)}) < 3}

\* those of them with bw[l] >= req on every edge l
FeasibleOfThree(bw, s, t, req) ==
    {p \in ThreeShortest(s, t) : \A l \in PathLinks(p) : bw[l] >= req}

\* the shortest of them, <<>> when there is none
FirstOfThree(bw, s, t, req) ==
    LET F == FeasibleOfThree(bw, s, t, req)
    IN IF F = {} THEN <<>>
       ELSE CHOOSE p \in F : \A q \in F \ {p} : PathBefore(p, q, substrate.n + 1)

\* some simple path between s and t beyond the three shortest has the bandwidth
BeyondThreeFits(bw, s, t, req) ==
    \E p \in SimplePaths(substrate, s, t) \ ThreeShortest(s, t) :
        \A l \in PathLinks(p) : bw[l] >= req

\* the virtual edges of vnr, in the order of vnr.edges(), routed between the
\* hosts nm each over the first feasible of its three shortest paths; with
\* debit, the bandwidth of a routed path is taken before the next edge
RECURSIVE RouteOverThree(_, _, _, _, _, _, _)
RouteOverThree(bw, vnr, nm, edges, j, lm, debit) ==
    IF j > Len(edges) THEN [routed |-> lm, failed |-> 0, bw |-> bw]
    ELSE LET e == edges[j]
             req == BwReq(vnr, e[1], e[2])
             path == FirstOfThree(bw, nm[e[1]], nm[e[2]], req)
         IN IF path = <<>> THEN [routed |-> lm, failed |-> j, bw |-> bw]
            ELSE RouteOverThree(IF debit
                                THEN [l \in DOMAIN bw |->
                                         IF l \in PathLinks(path) THEN bw[l] - req ELSE bw[l]]
                                ELSE bw,
                                vnr, nm, edges, j + 1, lm @@ (e :> path), debit)

MaxMatchLinksTried ==
    /\ JustArrived
    /\ algorithm = "rw_maxmatch_algorithm"
    /\ ~LastResult.node_mapping.none

MaxMatchRoute ==
    LET vnr == vnr_queue[LastResult.vnr_id]
    IN RouteOverThree(before.bandwidth_available, vnr, LastResult.node_mapping.map,
                      VEdges(vnr), 1, <<>>, FALSE)

YuRoute ==
    LET vnr == vnr_queue[YuLastVnr]
    IN RouteOverThree(before.bandwidth_available, vnr, after_call.node_mapping,
                      VEdges(vnr), 1, <<>>, TRUE)

\* C27: rw_maxmatch_link_mapping and the link pass of yu2008_algorithm map
\* every virtual link to the first of the at most three shortest simple
\* paths between its hosts, by increasing length, whose every edge has
\* bandwidth_available >= bandwidth_req; when none of these paths has it for
\* some link, that link and the request fail, whatever longer paths there are.
C27_ThreeShortestPathsOnly ==
    /\ MaxMatchLinksTried =>
          /\ LastResult.success <=> MaxMatchRoute.failed = 0
          /\ LastResult.success => LastResult.link_mapping.map = MaxMatchRoute.routed
          /\ ~LastResult.success => LastResult.link_mapping.none
    /\ YuAfterLinkStep =>
          /\ after_call.link_mapping = YuRoute.routed
          /\ YuLinkStepFailed <=> YuRoute.failed /= 0
          /\ ~YuLinkStepFailed => yu.link_mapping[YuLastVnr] = YuRoute.routed

\* C27 witness: rw_maxmatch_link_mapping gave up a link between two hosts
\* that a simple path beyond the three shortest joins with enough bandwidth
C27_Witness ==
    /\ MaxMatchLinksTried
    /\ ~LastResult.success
    /\ LET vnr == vnr_queue[LastResult.vnr_id]
           e == VEdges(vnr)[MaxMatchRoute.failed]
       IN BeyondThreeFits(before.bandwidth_available, LastResult.node_mapping.map[e[1]],
                          LastResult.node_mapping.map[e[2]], BwReq(vnr, e[1], e[2]))

\* the same in yu2008_algorithm, and a link that either strategy routed over
\* the second or third of the three paths
YuBeyondThreeSeen ==
    /\ YuLinkStepFailed
    /\ LET vnr == vnr_queue[YuLastVnr]
           e == VEdges(vnr)[YuRoute.failed]
       IN BeyondThreeFits(YuRoute.bw, after_call.node_mapping[e[1]],
                          after_call.node_mapping[e[2]], BwReq(vnr, e[1], e[2]))

MaxMatchDetourSeen ==
    /\ MaxMatchLinksTried
    /\ LastResult.success
    /\ \E e \in DOMAIN LastResult.link_mapping.map :
          LET path == LastResult.link_mapping.map[e]
          IN Len(path) > Len(ShortestPath(substrate, path[1], path[Len(path)]))

\* C28: the chunk list as create_chunks handed it over, and the chunks whose
\* loop body has been run through
YuInitialChunks == create_chunks(vnr_queue, time_window)

YuChunksProcessed == IF yu.stage \in {"results", "returned"} THEN yu.i - 1 ELSE yu.i

\* C28: yu2008_algorithm returns, whatever chunk list create_chunks made of
\* the queue; the list grows by at most one trailing chunk, the chunks before
\* it keep their places, and the bodies run are at most the initial chunks
\* and one.
C28_YuTerminates ==
    /\ [](/\ Len(yu.chunks) <= Len(YuInitialChunks) + 1
          /\ Len(yu.chunks) >= Len(YuInitialChunks)
          /\ YuChunksProcessed <= Len(YuInitialChunks) + 1)
    /\ <>(yu.stage = "returned")

\* C28 witness: the run has returned after a trailing chunk was appended to
\* the list under iteration and processed
C28_Witness ==
    /\ yu.stage = "returned"
    /\ Len(yu.chunks) = Len(YuInitialChunks) + 1
    /\ YuChunksProcessed = Len(yu.chunks)

\* C29: how often the departure of the VNR has been taken up
DeparturesOf(vnr_id) ==
    Cardinality({i \in DOMAIN processed :
                    processed[i].type = "DEPARTURE" /\ processed[i].vnr_id = vnr_id})

\* every availability of the working substrate is the capacity
AllFree ==
    /\ cpu_available = substrate.cpu
    /\ bandwidth_available = substrate.bandwidth

\* C29: vne_simulation comes to the end of its event list, and there the
\* departure of every accepted VNR has been taken up once and that of no
\* other VNR, active_embeddings is empty, and cpu_available and
\* bandwidth_available are the capacities on every node and link.
C29_SimulationDrains ==
    /\ <>Done
    /\ [](Done =>
            /\ \A vnr_id \in DOMAIN vnr_queue :
                  DeparturesOf(vnr_id) = IF vnr_id \in AcceptedIds THEN 1 ELSE 0
            /\ active_embeddings = <<>>
            /\ AllFree)

\* C29 witness: the list is exhausted after two VNRs were accepted, the
\* second one while the first was still embedded
C29_Witness ==
    /\ Done
    /\ \E i \in DOMAIN results : results[i].success /\ results[i].currently_active >= 2

\* C30: the current virtual node has no usable candidate left untried
BfsStuck ==
    /\ bfs.stage = "running"
    /\ bfs.current_index < Len(bfs.bfs_order)
    /\ ~BfsMatch.success

\* the limit is used up, or the current node is the root
BfsNoWayBack ==
    \/ bfs.backtrack_count = DefaultMaxBacktrack
    \/ bfs.current_index = 0

\* an iteration returns failure exactly from a stuck node with no way back,
\* and counts one backtrack exactly from a stuck node with a way back
BfsStepRule ==
    bfs.stage = "running" =>
        /\ (bfs'.stage = "returned" /\ ~bfs'.success) <=> (BfsStuck /\ BfsNoWayBack)
        /\ bfs'.backtrack_count =
              bfs.backtrack_count + (IF BfsStuck /\ ~BfsNoWayBack THEN 1 ELSE 0)
        /\ (BfsStuck /\ ~BfsNoWayBack) => bfs'.current_index = bfs.current_index - 1

\* what the loop returned is what bfs_embedding_with_backtracking returns
BfsReturnedAsCalled ==
    bfs.stage = "returned" =>
        LET out == bfs_embedding_with_backtracking(substrate, cpu_available,
                       bandwidth_available, BfsVnr, bfs.bfs_order, bfs.bfs_parents,
                       bfs.candidate_lists, DefaultMaxHop, DefaultMaxBacktrack)
        IN /\ out.success = bfs.success
           /\ out.backtrack_count = bfs.backtrack_count
           /\ bfs.success =>
                 /\ out.node_mapping = bfs.node_mapping
                 /\ out.link_mapping = bfs.link_mapping

\* C30: in a call of rw_bfs_algorithm, backtrack_count, which counts the
\* backtracks of the whole call, never exceeds max_backtrack; the call
\* returns failure exactly when the current virtual node has no usable
\* untried candidate and max_backtrack backtracks have been done or the
\* node is the root.
C30_BacktrackBound ==
    /\ [](bfs.backtrack_count <= DefaultMaxBacktrack /\ BfsReturnedAsCalled)
    /\ [][BfsStepRule]_vars

\* C30 witness: the call failed at a node other than the root, after
\* max_backtrack backtracks
C30_Witness ==
    /\ bfs.stage = "returned"
    /\ ~bfs.success
    /\ bfs.backtrack_count = DefaultMaxBacktrack
    /\ bfs.current_index > 0

\* the call failed at the root with backtracks to spare, and a call
\* succeeded after max_backtrack backtracks
BfsRootFailureSeen ==
    /\ bfs.stage = "returned"
    /\ ~bfs.success
    /\ bfs.current_index = 0
    /\ bfs.backtrack_count \in 1..(DefaultMaxBacktrack - 1)

BfsLateSuccessSeen ==
    /\ bfs.stage = "returned"
    /\ bfs.success
    /\ bfs.backtrack_count = DefaultMaxBacktrack

\* C31: what one step of the loop does: it places the current node and moves
\* on, or undoes one placement and counts it, or returns
BfsAdvances ==
    /\ bfs'.stage = "running"
    /\ bfs'.current_index = bfs.current_index + 1
    /\ bfs'.backtrack_count = bfs.backtrack_count

BfsBacktracks ==
    /\ bfs'.stage = "running"
    /\ bfs'.current_index = bfs.current_index - 1
    /\ bfs'.backtrack_count = bfs.backtrack_count + 1
    /\ bfs'.backtrack_count <= DefaultMaxBacktrack

BfsReturns == bfs'.stage = "returned"

\* C31: bfs_embedding_with_backtracking returns, with success or failure;
\* every step of its loop advances the BFS index, or is one of the at most
\* max_backtrack backtracks, or returns.
C31_BfsTerminates ==
    /\ <>(bfs.stage = "returned")
    /\ [][bfs.stage = "running" => (BfsAdvances \/ BfsBacktracks \/ BfsReturns)]_vars

\* C31 witness: the call has returned success after two backtracks
C31_Witness ==
    /\ bfs.stage = "returned"
    /\ bfs.success
    /\ bfs.backtrack_count = 2

\* C32: the substrate nodes at most k hops from a node of S
RECURSIVE WithinHops(_, _)
WithinHops(S, k) ==
    IF k = 0 THEN S
    ELSE WithinHops(S \cup {u \in SNodes(substrate) : \E w \in S : {u, w} \in substrate.links},
                    k - 1)

\* virtual node v is the root, or its host is at most k hops from the host
\* of its BFS parent
NearParent(nm, v, k) ==
    bfs.bfs_parents[v] /= 0 =>
        /\ bfs.bfs_parents[v] \in DOMAIN nm
        /\ nm[v] \in WithinHops({nm[bfs.bfs_parents[v]]}, k)

\* C32: in the node_mapping a successful call of rw_bfs_algorithm returns,
\* and in node_mapping all along the call, backtracks included, every
\* virtual node but the root is hosted at most max_hop hops from the host of
\* its BFS parent.
C32_HostsNearParent ==
    /\ \A v \in DOMAIN bfs.node_mapping : NearParent(bfs.node_mapping, v, DefaultMaxHop)
    /\ (bfs.stage = "returned" /\ bfs.success) =>
          /\ DOMAIN bfs.node_mapping = VNodes(BfsVnr)
          /\ \A v \in VNodes(BfsVnr) : NearParent(bfs.node_mapping, v, DefaultMaxHop)

\* C32 witness: a successful call that placed a node max_hop hops from its
\* parent's host, the parent having been placed again after a backtrack
C32_Witness ==
    /\ bfs.stage = "returned"
    /\ bfs.success
    /\ bfs.backtrack_count > 0
    /\ \E v \in VNodes(BfsVnr) :
          /\ bfs.bfs_parents[v] /= 0
          /\ ~NearParent(bfs.node_mapping, v, DefaultMaxHop - 1)

\* a call that failed although a host with enough CPU was left, four hops
\* from the parent's host
BfsTooFarSeen ==
    /\ bfs.stage = "returned"
    /\ ~bfs.success
    /\ cpu_available = <<CpuCap, 0, 0, 0, CpuCap>>
    /\ BfsVnr.n = 2

\* C33: the virtual node a backtrack takes back: the one placed last
BfsPrevNode == bfs.bfs_order[bfs.current_index]

\* the virtual nodes at the current position of the BFS order and after it
BfsFromHere == {bfs.bfs_order[j] : j \in (bfs.current_index + 1)..Len(bfs.bfs_order)}

\* what a backtrack does to the locals of the loop
BfsBacktrackRule ==
    (bfs.stage = "running" /\ BfsBacktracks) =>
        /\ \A v \in BfsFromHere : bfs'.tried_candidates[v] = {}
        /\ BfsPrevNode \in DOMAIN bfs.node_mapping
        /\ bfs'.node_mapping =
              [v \in DOMAIN bfs.node_mapping \ {BfsPrevNode} |-> bfs.node_mapping[v]]
        /\ bfs'.link_mapping =
              [e \in {e \in DOMAIN bfs.link_mapping : BfsPrevNode \notin {e[1], e[2]}} |->
                  bfs.link_mapping[e]]
        /\ bfs'.tried_candidates[BfsPrevNode] =
              bfs.tried_candidates[BfsPrevNode] \cup {bfs.node_mapping[BfsPrevNode]}
        /\ \A v \in DOMAIN bfs.tried_candidates \ (BfsFromHere \cup {BfsPrevNode}) :
              bfs'.tried_candidates[v] = bfs.tried_candidates[v]

\* a placement takes a host outside the tried set of the node and leaves the
\* tried sets alone
BfsPlacementRule ==
    (bfs.stage = "running" /\ BfsAdvances) =>
        /\ bfs'.node_mapping[BfsNode] \notin bfs.tried_candidates[BfsNode]
        /\ bfs'.tried_candidates = bfs.tried_candidates

BfsPlacedElsewhereSeen ==
    /\ bfs.stage = "running"
    /\ \E i, j \in DOMAIN processed :
          /\ i < j
          /\ j = Len(processed)
          /\ processed[i][1] = processed[j][1]
          /\ processed[i][2] /= processed[j][2]
          /\ processed[i][2] \in bfs.tried_candidates[processed[j][1]]

\* C34: the virtual nodes at the first k positions of the BFS order
BfsFirst(k) == {bfs.bfs_order[j] : j \in 1..k}

\* the virtual links of the VNR with both ends mapped
BfsMappedLinks ==
    {e \in Range(VEdges(BfsVnr)) : e[1] \in DOMAIN bfs.node_mapping /\ e[2] \in DOMAIN bfs.node_mapping}

\* p is a path of the substrate from substrate node s to substrate node t
RunsBetween(p, s, t) ==
    /\ Len(p) >= 1
    /\ p[1] = s
    /\ p[Len(p)] = t
    /\ \A i \in 1..(Len(p) - 1) : Link(p[i], p[i + 1]) \in substrate.links

\* link_mapping has one path for each mapped link, under one of the two
\* orders of its ends, running between the hosts of its ends, and no other
BfsLinksAsMapped ==
    /\ \A e \in BfsMappedLinks :
          Cardinality(DOMAIN bfs.link_mapping \cap {<<e[1], e[2]>>, <<e[2], e[1]>>}) = 1
    /\ \A k \in DOMAIN bfs.link_mapping :
          /\ \E e \in BfsMappedLinks : k \in {<<e[1], e[2]>>, <<e[2], e[1]>>}
          /\ RunsBetween(bfs.link_mapping[k], bfs.node_mapping[k[1]], bfs.node_mapping[k[2]])

\* C34: all along bfs_embedding_with_backtracking the mapped virtual nodes
\* are the first current_index nodes of the BFS order, and link_mapping has
\* one path for every virtual link between two mapped nodes and none for any
\* other link; a successful return therefore covers every virtual node and
\* every virtual link of the (connected) VNR, each path running between the
\* hosts of the ends of its link.
C34_MappedPrefix ==
    bfs.stage \in {"running", "returned"} =>
        /\ DOMAIN bfs.node_mapping = BfsFirst(bfs.current_index)
        /\ BfsLinksAsMapped
        /\ (bfs.stage = "returned" /\ bfs.success) =>
              /\ DOMAIN bfs.node_mapping = VNodes(BfsVnr)
              /\ BfsMappedLinks = Range(VEdges(BfsVnr))

\* C34 witness: a successful call for a VNR of three links, after a backtrack
C34_Witness ==
    /\ bfs.stage = "returned"
    /\ bfs.success
    /\ bfs.backtrack_count > 0
    /\ Cardinality(DOMAIN bfs.link_mapping) = 3

\* the loop between two placements, with a link mapped and a node still to place
BfsPartlyMappedSeen ==
    /\ bfs.stage = "running"
    /\ bfs.backtrack_count > 0
    /\ bfs.current_index = 2
    /\ Len(bfs.bfs_order) = 3
    /\ Cardinality(DOMAIN bfs.link_mapping) = 1

\* C35: the place of substrate node c in the candidate list of virtual node v
\* (0: not in the list); the list is in descending rank order
CandidatePlace(v, c) ==
    IF \E i \in DOMAIN bfs.candidate_lists[v] : bfs.candidate_lists[v][i] = c
    THEN CHOOSE i \in DOMAIN bfs.candidate_lists[v] : bfs.candidate_lists[v][i] = c
    ELSE 0

\* the link from virtual node v, were it hosted on c, to its neighbour w,
\* hosted already, can be routed: the shortest path between the two hosts has
\* the bandwidth the link asks for on every edge
Routable(nm, v, c, w) ==
    \/ c = nm[w]
    \/ /\ ShortestPath(substrate, c, nm[w]) /= <<>>
       /\ PathFeasible(bandwidth_available, ShortestPath(substrate, c, nm[w]),
                       BwReq(BfsVnr, v, w))

\* substrate node c can host the non-root virtual node v at radius k, nm
\* being the mapping so far and tried the hosts v has been taken off
Qualifies(nm, tried, v, c, k) ==
    /\ CandidatePlace(v, c) > 0
    /\ c \notin tried
    /\ c \notin Range(nm)
    /\ cpu_available[c] >= BfsVnr.cpu_req[v]
    /\ c \in WithinHops({nm[bfs.bfs_parents[v]]}, k)
    /\ \A w \in Range(Neighbors(BfsVnr, v)) \cap DOMAIN nm : Routable(nm, v, c, w)

\* c is what the search by widening radius takes for v: it qualifies at some
\* radius, nothing qualifies at a smaller one, and what else qualifies at
\* that radius comes later in the candidate list
ChosenByRadius(nm, tried, v, c) ==
    \E k \in 1..DefaultMaxHop :
        /\ Qualifies(nm, tried, v, c, k)
        /\ \A d \in SNodes(substrate) :
              /\ \A k2 \in 1..(k - 1) : ~Qualifies(nm, tried, v, d, k2)
              /\ Qualifies(nm, tried, v, d, k) => CandidatePlace(v, c) <= CandidatePlace(v, d)

\* the candidate lists are in descending order of the ranks the call was given
CandidatesByRank ==
    \E rs \in RankVectors(SubstrateH(substrate, cpu_available, bandwidth_available)) :
        /\ bfs.candidate_lists =
              build_candidate_lists(substrate, cpu_available, bandwidth_available, BfsVnr, rs)
        /\ \A v \in DOMAIN bfs.candidate_lists :
              \A i, j \in DOMAIN bfs.candidate_lists[v] :
                  i < j => rs[bfs.candidate_lists[v][i]] >= rs[bfs.candidate_lists[v][j]]

\* C35: for a virtual node that is not the root, match_vnr_node takes the
\* highest-ranked untried and unused candidate with enough CPU within one hop
\* of the host of the BFS parent whose links to all mapped neighbours can be
\* routed; it goes to radius 2, and on to max_hop, only when no candidate
\* qualifies at a smaller radius, and it fails when none qualifies at max_hop.
C35_WideningRadius ==
    /\ (bfs.stage = "running" /\ bfs.current_index = 0 /\ bfs.backtrack_count = 0) =>
          CandidatesByRank
    /\ (bfs.stage = "running" /\ bfs.current_index \in 1..(Len(bfs.bfs_order) - 1)) =>
          /\ BfsMatch.success =>
                ChosenByRadius(bfs.node_mapping, bfs.tried_candidates[BfsNode], BfsNode,
                               BfsMatch.substrate_node)
          /\ ~BfsMatch.success =>
                \A d \in SNodes(substrate) :
                    ~Qualifies(bfs.node_mapping, bfs.tried_candidates[BfsNode], BfsNode,
                               d, DefaultMaxHop)

\* the mapping as it was before the last placement
BfsMappingBefore ==
    [v \in DOMAIN bfs.node_mapping \ {BfsPrevNode} |-> bfs.node_mapping[v]]

\* C35 witness: a node has just been placed one hop from its parent's host
\* although a candidate of higher rank qualified two hops away
C35_Witness ==
    /\ bfs.stage = "running"
    /\ bfs.current_index >= 2
    /\ processed /= <<>>
    /\ processed[Len(processed)] = <<BfsPrevNode, bfs.node_mapping[BfsPrevNode]>>
    /\ Qualifies(BfsMappingBefore, bfs.tried_candidates[BfsPrevNode], BfsPrevNode,
                 bfs.node_mapping[BfsPrevNode], 1)
    /\ \E d \in SNodes(substrate) :
          /\ Qualifies(BfsMappingBefore, bfs.tried_candidates[BfsPrevNode], BfsPrevNode, d, 2)
          /\ ~Qualifies(BfsMappingBefore, bfs.tried_candidates[BfsPrevNode], BfsPrevNode, d, 1)
          /\ CandidatePlace(BfsPrevNode, d) < CandidatePlace(BfsPrevNode, bfs.node_mapping[BfsPrevNode])

\* a node placed two hops from its parent's host, none qualifying at one hop
BfsSecondRadiusSeen ==
    /\ bfs.stage = "running"
    /\ bfs.current_index >= 2
    /\ processed /= <<>>
    /\ processed[Len(processed)] = <<BfsPrevNode, bfs.node_mapping[BfsPrevNode]>>
    /\ Qualifies(BfsMappingBefore, bfs.tried_candidates[BfsPrevNode], BfsPrevNode,
                 bfs.node_mapping[BfsPrevNode], 2)
    /\ \A d \in SNodes(substrate) :
          ~Qualifies(BfsMappingBefore, bfs.tried_candidates[BfsPrevNode], BfsPrevNode, d, 1)

\* C36: sorted(..., key=rank, reverse=True) puts a before b: a has the higher
\* rank, or the same rank and comes first in node order
RankedBefore(rank, a, b) == rank[a] > rank[b] \/ (rank[a] = rank[b] /\ a < b)

\* pm places every virtual node of D on the highest-ranked substrate node
\* with enough CPU that the virtual nodes ranked before it have left
PlacedInRankOrder(pm, D, cpu, vnr, rs, rv) ==
    \A v \in D :
        LET used == {pm[u] : u \in {u \in D : RankedBefore(rv, u, v)}}
        IN /\ pm[v] \notin used
           /\ cpu[pm[v]] >= vnr.cpu_req[v]
           /\ \A s \in SNodes(substrate) \ (used \cup {pm[v]}) :
                 cpu[s] >= vnr.cpu_req[v] => RankedBefore(rs, pm[v], s)

\* nm is what placing in rank order, with no way back, comes to: the whole
\* placement, or nothing when the turn comes to a virtual node no free
\* substrate node has the CPU for
RankOrderOutcome(nm, cpu, vnr, rs, rv) ==
    IF nm.none
    THEN \E v \in VNodes(vnr) :
            LET D == {u \in VNodes(vnr) : RankedBefore(rv, u, v)}
            IN \E pm \in [D -> SNodes(substrate)] :
                  /\ PlacedInRankOrder(pm, D, cpu, vnr, rs, rv)
                  /\ \A s \in SNodes(substrate) \ Range(pm) : cpu[s] < vnr.cpu_req[v]
    ELSE /\ DOMAIN nm.map = VNodes(vnr)
         /\ PlacedInRankOrder(nm.map, VNodes(vnr), cpu, vnr, rs, rv)

\* the VNR of the last result
VnrOfLast == vnr_queue[LastResult.vnr_id]

\* rw_maxmatch_algorithm has just been called with both ranks defined
MaxMatchCalled ==
    /\ JustArrived
    /\ algorithm = "rw_maxmatch_algorithm"
    /\ ~NodeRankUndefined(SubstrateHBefore)
    /\ ~NodeRankUndefined(VnrHOfLast)

\* C36: rw_maxmatch_node_mapping takes the virtual nodes in descending order
\* of VNR rank and places each on the highest-ranked substrate node this VNR
\* does not use yet with cpu_available >= cpu_req; it never goes back on a
\* placement, and fails as soon as one virtual node finds no such node.
C36_RankOrderNoBacktracking ==
    MaxMatchCalled =>
        /\ \A rs \in RankVectors(SubstrateHBefore), rv \in RankVectors(VnrHOfLast) :
              RankOrderOutcome(rw_maxmatch_node_mapping(substrate, before.cpu_available,
                                                        VnrOfLast, rs, rv),
                               before.cpu_available, VnrOfLast, rs, rv)
        /\ \E rs \in RankVectors(SubstrateHBefore), rv \in RankVectors(VnrHOfLast) :
              RankOrderOutcome(LastResult.node_mapping, before.cpu_available, VnrOfLast, rs, rv)

\* C36 witness: the node mapping failed although the virtual nodes could all
\* have been placed, on other substrate nodes than the rank order gave them
C36_Witness ==
    /\ MaxMatchCalled
    /\ ~LastResult.success
    /\ LastResult.node_mapping.none
    /\ SomeNodeAssignment(before.cpu_available, VnrOfLast)

\* a node mapping in rank order that was returned although no links could be
\* routed for it
MaxMatchPlacedUnroutedSeen ==
    /\ MaxMatchCalled
    /\ ~LastResult.success
    /\ ~LastResult.node_mapping.none

\* C37: two virtual nodes joined by a link that asks for no bandwidth, and
\* two virtual nodes that ask for no CPU
PairNoBandwidth ==
    [n |-> 2, cpu_req |-> <<1, 1>>, edge_list |-> << <<1, 2>> >>, bandwidth_req |-> <<0>>]

PairNoCpu ==
    [n |-> 2, cpu_req |-> <<0, 0>>, edge_list |-> << <<1, 2>> >>, bandwidth_req |-> <<1>>]

\* VNRs in which cpu_req times the bandwidth_req of the links at the node is
\* zero at every node
ZeroWeightVnrs ==
    {MakeVnr(1, [body |-> b, arrival_time |-> 0, lifetime |-> 0]) :
        b \in {Single, PairNoBandwidth, PairNoCpu}}

\* a strategy called on the substrate as it is now rejects the VNR
RejectsNow(alg, vnr) ==
    EmbedOutcomes(alg, substrate, cpu_available, bandwidth_available, vnr)
        = {Failure(cpu_available, bandwidth_available)}

\* the VNR of the last result has one virtual node and no links
SingleNodeArrived ==
    /\ JustArrived
    /\ VnrOfLast.n = 1
    /\ VnrOfLast.edge_list = <<>>

\* C37: a VNR of one virtual node and no links, and any VNR in which cpu_req
\* times the bandwidth_req at the node is zero at every node, has no rank:
\* rw_bfs_algorithm and rw_maxmatch_algorithm reject it on every substrate,
\* whatever is free, while simple_greedy_algorithm accepts the single node
\* exactly when a substrate node has cpu_available >= cpu_req.
C37_SingleNodeVnr ==
    /\ \A vnr \in ZeroWeightVnrs :
          /\ NodeRankUndefined(VnrH(vnr))
          /\ \A alg \in RankedAlgorithms : RejectsNow(alg, vnr)
    /\ SingleNodeArrived =>
          /\ NodeRankUndefined(VnrHOfLast)
          /\ algorithm \in RankedAlgorithms => FailedUntouched
          /\ algorithm = "simple_greedy_algorithm" =>
                (LastResult.success <=>
                    \E u \in SNodes(substrate) :
                        before.cpu_available[u] >= VnrOfLast.cpu_req[1])

\* C37 witness: a NodeRank strategy has rejected a single virtual node on a
\* substrate with all its capacity free
C37_Witness ==
    /\ SingleNodeArrived
    /\ algorithm \in RankedAlgorithms
    /\ before.cpu_available = substrate.cpu
    /\ before.bandwidth_available = substrate.bandwidth
    /\ \E u \in SNodes(substrate) : before.cpu_available[u] >= VnrOfLast.cpu_req[1]
    /\ ~LastResult.success

\* the greedy strategy has accepted a single virtual node
GreedySingleAcceptedSeen ==
    /\ SingleNodeArrived
    /\ algorithm = "simple_greedy_algorithm"
    /\ LastResult.success

\* the greedy strategy has rejected a single virtual node: no CPU was left
GreedySingleRejectedSeen ==
    /\ SingleNodeArrived
    /\ algorithm = "simple_greedy_algorithm"
    /\ ~LastResult.success

====
